---------------------------- MODULE Spec2Model ----------------------------
(***************************************************************************)
(* Model of relic_usb_host_gamepad (src/relic_usb_host_gamepad/__init__.py) *)
(* : the Gamepad connection manager (update / _find_device / disconnect),   *)
(* the Device poller (read_state), the family decoders and the State /      *)
(* Buttons layer, driven by a nondeterministic USB transport.               *)
(*                                                                          *)
(* Python None is modelled by: 0 for a port and for a device handle, <<>>   *)
(* for a device id and for port_numbers.  Bitfields are modelled by the set *)
(* of their set bit positions.  Time is counted in ticks; only the elapsed  *)
(* time since each timestamp is kept (saturating), which is all the code    *)
(* ever compares.                                                           *)
(***************************************************************************)
EXTENDS Integers, Sequences, FiniteSets, TLC

\* ------------------------------------------------------------ constants
\* _MAX_TIMEOUTS and _SEARCH_DELAY (seconds); the three defaults are the
\* values the State setters store for 0.5, 0.25 and 0.1:
\* int(0.5 * 255), int(0.25 * 32767), int(0.1 * 32766)
MAX_TIMEOUTS == 99
SEARCH_DELAY == 1
DEFAULT_TRIGGER_THRESHOLD == 127
DEFAULT_JOYSTICK_THRESHOLD == 8191
DEFAULT_JOYSTICK_DEADZONE == 3276

DEVICE_TYPE_UNKNOWN == 0
DEVICE_TYPE_SWITCH_PRO == 1
DEVICE_TYPE_ADAFRUIT_SNES == 2
DEVICE_TYPE_8BITDO_ZERO2 == 3
DEVICE_TYPE_XINPUT == 4
DEVICE_TYPE_POWERA_WIRED == 5
DEVICE_TYPE_PLAYSTATION_DS4 == 6
DEVICE_TYPE_HID_JOYSTICK == 7

INTERFACE_HID == 3
USAGE_PAGE_GENERIC_DESKTOP == 1
USAGE_JOYSTICK == 4

\* (device type, vid, pid)
DEVICE_TYPES ==
    << <<DEVICE_TYPE_SWITCH_PRO, 1406, 8201>>,
       <<DEVICE_TYPE_ADAFRUIT_SNES, 2079, 58369>>,
       <<DEVICE_TYPE_8BITDO_ZERO2, 11720, 36888>>,
       <<DEVICE_TYPE_POWERA_WIRED, 8406, 42769>>,
       <<DEVICE_TYPE_PLAYSTATION_DS4, 1356, 2508>> >>

\* (device type, device class, device subclass, interface 0 class, subclass)
DEVICE_CLASSES == << <<DEVICE_TYPE_XINPUT, 255, 255, 255, 93>> >>

\* (device type, usage page id, usage id)
DEVICE_HID_USAGES ==
    << <<DEVICE_TYPE_HID_JOYSTICK, USAGE_PAGE_GENERIC_DESKTOP, USAGE_JOYSTICK>> >>

BUTTON_A == 0
BUTTON_B == 1
BUTTON_X == 2
BUTTON_Y == 3
BUTTON_UP == 4
BUTTON_DOWN == 5
BUTTON_LEFT == 6
BUTTON_RIGHT == 7
BUTTON_START == 8
BUTTON_SELECT == 9
BUTTON_HOME == 10
BUTTON_L1 == 11
BUTTON_R1 == 12
BUTTON_L2 == 13
BUTTON_R2 == 14
BUTTON_L3 == 15
BUTTON_R3 == 16
BUTTON_JOYSTICK_UP == 17
BUTTON_JOYSTICK_DOWN == 18
BUTTON_JOYSTICK_LEFT == 19
BUTTON_JOYSTICK_RIGHT == 20
BUTTON_TOUCH_PAD == 21

ButtonIds == 0..21

\* ------------------------------------------------------------ bounds
\* Most interfaces of a configuration handed to a constructor
MaxInterfaces == 3

\* Largest bInterval of a probed endpoint
MaxRawInterval == 8

\* Most mutator calls made in a row on one State object
MaxCalls == 2

\* Most records that follow the configuration record of a parsed stream
MaxRecords == 4

\* Distance between the axis values sampled over the whole range
AxisStride == 1024

\* Granularity of the clock: ticks per second.
TicksPerSecond == 1

\* ------------------------------------------------------------ helpers
Min(a, b) == IF a < b THEN a ELSE b
Max(a, b) == IF a > b THEN a ELSE b

\* A bit test that is true for every non-zero byte
BitSetAny(byte, mask) == byte # 0

\* bool(byte & mask) for a one-bit mask
BitSet(byte, mask) == (byte \div mask) % 2 = 1

\* int(p / q) for q > 0: Python float division followed by truncation
TruncDiv(p, q) == IF p >= 0 THEN p \div q ELSE -((-p) \div q)

\* ------------------------------------------------------------ Buttons
\* Button.__set__ on a Buttons object b = [pressed, changed]
ButtonSetValue(b, index, value) ==
    [pressed |-> IF value THEN b.pressed \cup {index} ELSE b.pressed \ {index},
     changed |-> IF (index \in b.pressed) # value
                 THEN b.changed \cup {index}
                 ELSE b.changed \ {index}]

\* Buttons.reset
ButtonsReset == [pressed |-> {}, changed |-> {}]

\* keypad.Event(key_number, pressed)
Event(key_number, pressed) == [key_number |-> key_number, pressed |-> pressed]

\* An events property that reports the pressed buttons
EventsOfPressed(b) ==
    LET RECURSIVE From(_)
        From(i) == IF i \notin ButtonIds THEN <<>>
                   ELSE (IF i \in b.pressed THEN <<Event(i, TRUE)>> ELSE <<>>)
                        \o From(i + 1)
    IN From(0)

\* Buttons.events: enumerate(self) walks BUTTON_NAMES from index 0 and keeps
\* the buttons whose bit is set in _changed
ButtonsEvents(b) ==
    LET RECURSIVE From(_)
        From(i) == IF i \notin ButtonIds THEN <<>>
                   ELSE (IF i \in b.changed THEN <<Event(i, i \in b.pressed)>>
                         ELSE <<>>)
                        \o From(i + 1)
    IN From(0)

\* ------------------------------------------------------------ State
\* State.__init__ followed by State.reset
StateInit ==
    [buttons |-> ButtonsReset,
     trigger_threshold |-> Min(Max(DEFAULT_TRIGGER_THRESHOLD, 1), 255),
     joystick_threshold |-> Min(Max(DEFAULT_JOYSTICK_THRESHOLD, 1), 32767),
     joystick_deadzone |-> Min(Max(DEFAULT_JOYSTICK_DEADZONE, 0), 32766),
     left_trigger |-> 0, right_trigger |-> 0,
     left_joystick_x |-> 0, left_joystick_y |-> 0,
     right_joystick_x |-> 0, right_joystick_y |-> 0,
     left_joystick_invert_x |-> FALSE, left_joystick_invert_y |-> FALSE,
     right_joystick_invert_x |-> FALSE, right_joystick_invert_y |-> FALSE]

\* A reset that releases the buttons and keeps the analog values
StateResetButtonsOnly(s) == [s EXCEPT !.buttons = ButtonsReset]

\* State.reset
StateReset(s) ==
    [s EXCEPT !.buttons = ButtonsReset,
              !.left_trigger = 0, !.right_trigger = 0,
              !.left_joystick_x = 0, !.left_joystick_y = 0,
              !.right_joystick_x = 0, !.right_joystick_y = 0]

SetButton(s, index, value) ==
    [s EXCEPT !.buttons = ButtonSetValue(s.buttons, index, value)]

\* A trigger_threshold setter that lets the threshold reach 0
SetTriggerThresholdFromZero(s, value) ==
    [s EXCEPT !.trigger_threshold = Min(Max(value, 0), 255)]

\* State.trigger_threshold setter (integer input)
SetTriggerThreshold(s, value) ==
    [s EXCEPT !.trigger_threshold = Min(Max(value, 1), 255)]

\* A left_trigger setter that presses L2 only above the threshold
SetLeftTriggerAbove(s, value) ==
    LET v == Min(Max(value, 0), 255)
    IN SetButton([s EXCEPT !.left_trigger = v], BUTTON_L2, v > s.trigger_threshold)

\* State.left_trigger setter (integer input)
SetLeftTrigger(s, value) ==
    LET v == Min(Max(value, 0), 255)
    IN SetButton([s EXCEPT !.left_trigger = v], BUTTON_L2, v >= s.trigger_threshold)

\* State.right_trigger setter (integer input)
SetRightTrigger(s, value) ==
    LET v == Min(Max(value, 0), 255)
    IN SetButton([s EXCEPT !.right_trigger = v], BUTTON_R2, v >= s.trigger_threshold)

\* State.joystick_threshold setter (integer input)
SetJoystickThreshold(s, value) ==
    [s EXCEPT !.joystick_threshold = Min(Max(value, 1), 32767)]

\* State.joystick_deadzone setter (integer input)
SetJoystickDeadzone(s, value) ==
    [s EXCEPT !.joystick_deadzone = Min(Max(value, 0), 32766)]

\* A deadzone that forgets the negative side of the axis
ApplyDeadzoneOneSided(s, value, invert) ==
    LET v0 == IF invert THEN -value ELSE value
        raw == Min(Max(v0, -32767), 32767)
        dz == s.joystick_deadzone
    IN << raw,
          IF raw > dz THEN TruncDiv((raw - dz) * 32767, 32767 - dz) ELSE 0 >>

\* State._apply_deadzone (integer input): <<raw_value, value>>
ApplyDeadzone(s, value, invert) ==
    LET v0 == IF invert THEN -value ELSE value
        raw == Min(Max(v0, -32767), 32767)
        dz == s.joystick_deadzone
    IN << raw,
          IF raw > dz THEN TruncDiv((raw - dz) * 32767, 32767 - dz)
          ELSE IF raw < -dz THEN -TruncDiv((raw + dz) * (-32767), 32767 - dz)
          ELSE 0 >>

\* A left_joystick setter that decides the pseudo-buttons by the rescaled
\* axis values
SetLeftJoystickRescaled(s, vx, vy) ==
    LET x == ApplyDeadzone(s, vx, s.left_joystick_invert_x)[2]
        y == ApplyDeadzone(s, vy, s.left_joystick_invert_y)[2]
        s1 == [s EXCEPT !.left_joystick_x = x, !.left_joystick_y = y]
        s2 == SetButton(s1, BUTTON_JOYSTICK_RIGHT, x >= s.joystick_threshold)
        s3 == SetButton(s2, BUTTON_JOYSTICK_LEFT, x <= -s.joystick_threshold)
        s4 == SetButton(s3, BUTTON_JOYSTICK_UP, y >= s.joystick_threshold)
    IN SetButton(s4, BUTTON_JOYSTICK_DOWN, y <= -s.joystick_threshold)

\* A left_joystick setter that presses a direction only beyond the threshold
SetLeftJoystickBeyond(s, vx, vy) ==
    LET ax == ApplyDeadzone(s, vx, s.left_joystick_invert_x)
        ay == ApplyDeadzone(s, vy, s.left_joystick_invert_y)
        s1 == [s EXCEPT !.left_joystick_x = ax[2], !.left_joystick_y = ay[2]]
        s2 == SetButton(s1, BUTTON_JOYSTICK_RIGHT, ax[1] > s.joystick_threshold)
        s3 == SetButton(s2, BUTTON_JOYSTICK_LEFT, ax[1] < -s.joystick_threshold)
        s4 == SetButton(s3, BUTTON_JOYSTICK_UP, ay[1] > s.joystick_threshold)
    IN SetButton(s4, BUTTON_JOYSTICK_DOWN, ay[1] < -s.joystick_threshold)

\* State.left_joystick setter
SetLeftJoystick(s, vx, vy) ==
    LET ax == ApplyDeadzone(s, vx, s.left_joystick_invert_x)
        ay == ApplyDeadzone(s, vy, s.left_joystick_invert_y)
        x == ax[1]
        y == ay[1]
        s1 == [s EXCEPT !.left_joystick_x = ax[2], !.left_joystick_y = ay[2]]
        s2 == SetButton(s1, BUTTON_JOYSTICK_RIGHT, x >= s.joystick_threshold)
        s3 == SetButton(s2, BUTTON_JOYSTICK_LEFT, x <= -s.joystick_threshold)
        s4 == SetButton(s3, BUTTON_JOYSTICK_UP, y >= s.joystick_threshold)
    IN SetButton(s4, BUTTON_JOYSTICK_DOWN, y <= -s.joystick_threshold)

\* A right_joystick setter that also drives the directional pseudo-buttons
SetRightJoystickDirections(s, vx, vy) ==
    LET w == SetLeftJoystick(s, vx, vy)
    IN [w EXCEPT !.left_joystick_x = s.left_joystick_x,
                 !.left_joystick_y = s.left_joystick_y,
                 !.right_joystick_x = w.left_joystick_x,
                 !.right_joystick_y = w.left_joystick_y]

\* State.right_joystick setter
SetRightJoystick(s, vx, vy) ==
    [s EXCEPT !.right_joystick_x = ApplyDeadzone(s, vx, s.right_joystick_invert_x)[2],
              !.right_joystick_y = ApplyDeadzone(s, vy, s.right_joystick_invert_y)[2]]


\* ------------------------------------------------------------ the attached devices
\* What usb.core.find(find_all=True) yields, in its order.  Every record is
\* one physical device: ids, hub port path, speed and its descriptor
\* (device class pair and the interfaces of configuration 0, each with its
\* class pair, optional HID usage pair and endpoints in stream order).
\* The first device reports no port path (port_numbers is None).
InEp(size, ival) == [input |-> TRUE, max_packet_size |-> size, interval |-> ival]
OutEp(size, ival) == [input |-> FALSE, max_packet_size |-> size, interval |-> ival]

World ==
    << [idVendor |-> 1406, idProduct |-> 8201, port_numbers |-> <<>>,
        speed_high |-> FALSE, device_class |-> <<0, 0>>, value |-> 1,
        interfaces |-> << [class |-> <<3, 0>>, hid_usage |-> <<>>,
                           endpoints |-> <<InEp(64, 8), OutEp(64, 8)>>] >>],
       [idVendor |-> 1118, idProduct |-> 654, port_numbers |-> <<2>>,
        speed_high |-> FALSE, device_class |-> <<255, 255>>, value |-> 1,
        interfaces |-> << [class |-> <<255, 93>>, hid_usage |-> <<>>,
                           endpoints |-> <<InEp(32, 4), OutEp(32, 8)>>] >>],
       [idVendor |-> 1133, idProduct |-> 49734, port_numbers |-> <<3>>,
        speed_high |-> FALSE, device_class |-> <<0, 0>>, value |-> 1,
        interfaces |-> << [class |-> <<3, 1>>, hid_usage |-> <<1, 6>>,
                           endpoints |-> <<InEp(8, 10)>>] >>],
       [idVendor |-> 2079, idProduct |-> 58369, port_numbers |-> <<4>>,
        speed_high |-> FALSE, device_class |-> <<0, 0>>, value |-> 1,
        interfaces |-> << [class |-> <<3, 0>>, hid_usage |-> <<>>,
                           endpoints |-> <<>>] >>] >>

Handles == 1..Len(World)

DeviceId(d) == <<World[d].idVendor, World[d].idProduct>>

\* DeviceDescriptor.get_class_identifier(): device pair + interface 0 pair
ClassIdentifier(d) == World[d].device_class \o World[d].interfaces[1].class

\* InterfaceDescriptor.in_endpoint / out_endpoint: first endpoint of that
\* direction, <<>> for None, <<endpoint>> otherwise
InEndpoint(itf) ==
    LET eps == SelectSeq(itf.endpoints, LAMBDA e : e.input)
    IN IF eps = <<>> THEN <<>> ELSE <<eps[1]>>

OutEndpoint(itf) ==
    LET eps == SelectSeq(itf.endpoints, LAMBDA e : ~e.input)
    IN IF eps = <<>> THEN <<>> ELSE <<eps[1]>>

\* ------------------------------------------------------------ classification
\* A classification that consults the class table before the id table
ClassifyClassFirst(id, ci, usage) ==
    IF \E i \in 1..Len(DEVICE_CLASSES) :
           ci = <<DEVICE_CLASSES[i][2], DEVICE_CLASSES[i][3],
                  DEVICE_CLASSES[i][4], DEVICE_CLASSES[i][5]>>
    THEN DEVICE_CLASSES[1][1]
    ELSE DEVICE_TYPE_UNKNOWN

\* The body of _get_device_type on a device with ids id, class identifier ci
\* and HID usage pair usage of interface 0 (<<>> when hid_descriptor is
\* None): id table, then HID usage of interface 0, then class table
Classify(id, ci, usage) ==
    LET byId == {i \in 1..Len(DEVICE_TYPES) :
                    id = <<DEVICE_TYPES[i][2], DEVICE_TYPES[i][3]>>}
        byUsage == {i \in 1..Len(DEVICE_HID_USAGES) :
                    usage = <<DEVICE_HID_USAGES[i][2], DEVICE_HID_USAGES[i][3]>>}
        byClass == {i \in 1..Len(DEVICE_CLASSES) :
                    ci = <<DEVICE_CLASSES[i][2], DEVICE_CLASSES[i][3],
                           DEVICE_CLASSES[i][4], DEVICE_CLASSES[i][5]>>}
        first(S) == CHOOSE i \in S : \A j \in S : i <= j
    IN IF byId # {} THEN DEVICE_TYPES[first(byId)][1]
       ELSE IF ci[3] = INTERFACE_HID /\ usage # <<>> /\ byUsage # {}
            THEN DEVICE_HID_USAGES[first(byUsage)][1]
       ELSE IF byClass # {} THEN DEVICE_CLASSES[first(byClass)][1]
       ELSE DEVICE_TYPE_UNKNOWN

\* _get_device_type(device, device_descriptor) on attached device d
GetDeviceType(d) ==
    Classify(DeviceId(d), ClassIdentifier(d), World[d].interfaces[1].hid_usage)

\* ------------------------------------------------------------ reports
Zeros(n) == [i \in 1..n |-> 0]

\* prefix padded with zero bytes to n bytes
Packet(prefix, n) == [i \in 1..n |-> IF i <= Len(prefix) THEN prefix[i] ELSE 0]

\* device.read(address, buffer): the first Len(data) bytes of the buffer are
\* overwritten, the rest keeps what earlier reads left there
ReadInto(buffer, data) ==
    [i \in 1..Len(buffer) |-> IF i <= Len(data) THEN data[i] ELSE buffer[i]]

\* report[i] with Python's 0-based index
Byte(report, i) == report[i + 1]

\* struct.unpack("h", report[i:i+2])[0]
Int16(report, i) ==
    LET u == Byte(report, i) + 256 * Byte(report, i + 1)
    IN IF u >= 32768 THEN u - 65536 ELSE u

\* A comparison that looks at the first byte only
ReportEqualsFirstByte(a, b, length) == a[1] = b[1]

\* _report_equals(a, b, length) with both buffers present
ReportEquals(a, b, length) == \A i \in 1..length : a[i] = b[i]


\* ------------------------------------------------------------ decoders
\* SwitchProDevice._update_state
SwitchProUpdateState(r, s) ==
    LET s1 == SetButton(s, BUTTON_Y, BitSet(Byte(r, 2), 1))
        s2 == SetButton(s1, BUTTON_X, BitSet(Byte(r, 2), 2))
        s3 == SetButton(s2, BUTTON_B, BitSet(Byte(r, 2), 4))
        s4 == SetButton(s3, BUTTON_A, BitSet(Byte(r, 2), 8))
        s5 == SetButton(s4, BUTTON_R1, BitSet(Byte(r, 2), 64))
        s6 == SetButton(s5, BUTTON_SELECT, BitSet(Byte(r, 3), 1))
        s7 == SetButton(s6, BUTTON_START, BitSet(Byte(r, 3), 2))
        s8 == SetButton(s7, BUTTON_DOWN, BitSet(Byte(r, 4), 1))
        s9 == SetButton(s8, BUTTON_UP, BitSet(Byte(r, 4), 2))
        s10 == SetButton(s9, BUTTON_RIGHT, BitSet(Byte(r, 4), 4))
        s11 == SetButton(s10, BUTTON_LEFT, BitSet(Byte(r, 4), 8))
    IN SetButton(s11, BUTTON_L1, BitSet(Byte(r, 4), 64))

\* XInputDevice._update_state
XInputUpdateState(r, s) ==
    LET s1 == SetButton(s, BUTTON_UP, BitSet(Byte(r, 2), 1))
        s2 == SetButton(s1, BUTTON_DOWN, BitSet(Byte(r, 2), 2))
        s3 == SetButton(s2, BUTTON_LEFT, BitSet(Byte(r, 2), 4))
        s4 == SetButton(s3, BUTTON_RIGHT, BitSet(Byte(r, 2), 8))
        s5 == SetButton(s4, BUTTON_START, BitSet(Byte(r, 2), 16))
        s6 == SetButton(s5, BUTTON_SELECT, BitSet(Byte(r, 2), 32))
        s7 == SetButton(s6, BUTTON_L1, BitSet(Byte(r, 3), 1))
        s8 == SetButton(s7, BUTTON_R1, BitSet(Byte(r, 3), 2))
        s9 == SetButton(s8, BUTTON_HOME, BitSet(Byte(r, 3), 4))
        s10 == SetButton(s9, BUTTON_B, BitSet(Byte(r, 3), 16))
        s11 == SetButton(s10, BUTTON_A, BitSet(Byte(r, 3), 32))
        s12 == SetButton(s11, BUTTON_Y, BitSet(Byte(r, 3), 64))
        s13 == SetButton(s12, BUTTON_X, BitSet(Byte(r, 3), 128))
        s14 == SetLeftTrigger(s13, Byte(r, 4))
        s15 == SetRightTrigger(s14, Byte(r, 5))
        s16 == SetLeftJoystick(s15, Int16(r, 6), Int16(r, 8))
    IN SetRightJoystick(s16, Int16(r, 10), Int16(r, 12))

\* AdafruitSnesDevice._update_state
AdafruitSnesUpdateState(r, s) ==
    LET s1 == SetButton(s, BUTTON_LEFT, Byte(r, 0) = 0)
        s2 == SetButton(s1, BUTTON_RIGHT, Byte(r, 0) = 255)
        s3 == SetButton(s2, BUTTON_UP, Byte(r, 1) = 0)
        s4 == SetButton(s3, BUTTON_DOWN, Byte(r, 1) = 255)
        s5 == SetButton(s4, BUTTON_X, BitSet(Byte(r, 5), 16))
        s6 == SetButton(s5, BUTTON_A, BitSet(Byte(r, 5), 32))
        s7 == SetButton(s6, BUTTON_B, BitSet(Byte(r, 5), 64))
        s8 == SetButton(s7, BUTTON_Y, BitSet(Byte(r, 5), 128))
        s9 == SetButton(s8, BUTTON_L1, BitSet(Byte(r, 6), 1))
        s10 == SetButton(s9, BUTTON_R1, BitSet(Byte(r, 6), 2))
        s11 == SetButton(s10, BUTTON_SELECT, BitSet(Byte(r, 6), 16))
    IN SetButton(s11, BUTTON_START, BitSet(Byte(r, 6), 32))

\* A hat decode that presses a direction on its cardinal code only
Zero2UpdateStateCardinal(r, s) ==
    LET s1 == SetButton(s, BUTTON_UP, Byte(r, 2) = 0)
        s2 == SetButton(s1, BUTTON_RIGHT, Byte(r, 2) = 2)
        s3 == SetButton(s2, BUTTON_DOWN, Byte(r, 2) = 4)
    IN SetButton(s3, BUTTON_LEFT, Byte(r, 2) = 6)

\* Zero2Device._update_state
Zero2UpdateState(r, s) ==
    LET s1 == SetButton(s, BUTTON_A, BitSet(Byte(r, 0), 1))
        s2 == SetButton(s1, BUTTON_B, BitSet(Byte(r, 0), 2))
        s3 == SetButton(s2, BUTTON_X, BitSet(Byte(r, 0), 8))
        s4 == SetButton(s3, BUTTON_Y, BitSet(Byte(r, 0), 16))
        s5 == SetButton(s4, BUTTON_L1, BitSet(Byte(r, 0), 64))
        s6 == SetButton(s5, BUTTON_R1, BitSet(Byte(r, 0), 128))
        s7 == SetButton(s6, BUTTON_SELECT, BitSet(Byte(r, 1), 4))
        s8 == SetButton(s7, BUTTON_START, BitSet(Byte(r, 1), 8))
        s9 == SetButton(s8, BUTTON_UP, Byte(r, 2) \in {7, 0, 1})
        s10 == SetButton(s9, BUTTON_RIGHT, Byte(r, 2) \in {1, 2, 3})
        s11 == SetButton(s10, BUTTON_DOWN, Byte(r, 2) \in {3, 4, 5})
    IN SetButton(s11, BUTTON_LEFT, Byte(r, 2) \in {5, 6, 7})

\* PowerAWiredDevice._update_state
PowerAWiredUpdateState(r, s) ==
    LET s1 == SetButton(s, BUTTON_Y, BitSet(Byte(r, 0), 1))
        s2 == SetButton(s1, BUTTON_B, BitSet(Byte(r, 0), 2))
        s3 == SetButton(s2, BUTTON_A, BitSet(Byte(r, 0), 4))
        s4 == SetButton(s3, BUTTON_X, BitSet(Byte(r, 0), 8))
        s5 == SetButton(s4, BUTTON_L1, BitSet(Byte(r, 0), 16))
        s6 == SetButton(s5, BUTTON_R1, BitSet(Byte(r, 0), 32))
        s7 == SetButton(s6, BUTTON_SELECT, BitSet(Byte(r, 1), 1))
        s8 == SetButton(s7, BUTTON_START, BitSet(Byte(r, 1), 2))
        s9 == SetButton(s8, BUTTON_UP, Byte(r, 2) \in {7, 0, 1})
        s10 == SetButton(s9, BUTTON_RIGHT, Byte(r, 2) \in {1, 2, 3})
        s11 == SetButton(s10, BUTTON_DOWN, Byte(r, 2) \in {3, 4, 5})
    IN SetButton(s11, BUTTON_LEFT, Byte(r, 2) \in {5, 6, 7})

\* DualShock4Device._update_state
DualShock4UpdateState(r, s) ==
    LET a1 == SetLeftJoystick(s, (Byte(r, 1) - 128) * 256, (128 - Byte(r, 2)) * 256)
        a2 == SetRightJoystick(a1, (Byte(r, 3) - 128) * 256, (128 - Byte(r, 4)) * 256)
        s1 == SetButton(a2, BUTTON_Y, BitSet(Byte(r, 5), 128))
        s2 == SetButton(s1, BUTTON_B, BitSet(Byte(r, 5), 64))
        s3 == SetButton(s2, BUTTON_A, BitSet(Byte(r, 5), 32))
        s4 == SetButton(s3, BUTTON_X, BitSet(Byte(r, 5), 16))
        s5 == SetButton(s4, BUTTON_UP, Byte(r, 5) \in {7, 0, 1})
        s6 == SetButton(s5, BUTTON_RIGHT, Byte(r, 5) \in {1, 2, 3})
        s7 == SetButton(s6, BUTTON_DOWN, Byte(r, 5) \in {3, 4, 5})
        s8 == SetButton(s7, BUTTON_LEFT, Byte(r, 5) \in {5, 6, 7})
        s9 == SetButton(s8, BUTTON_L1, BitSet(Byte(r, 6), 1))
        s10 == SetButton(s9, BUTTON_R1, BitSet(Byte(r, 6), 2))
        s11 == SetButton(s10, BUTTON_SELECT, BitSet(Byte(r, 6), 16))
        s12 == SetButton(s11, BUTTON_START, BitSet(Byte(r, 6), 32))
        s13 == SetButton(s12, BUTTON_L3, BitSet(Byte(r, 6), 64))
        s14 == SetButton(s13, BUTTON_R3, BitSet(Byte(r, 6), 128))
        s15 == SetButton(s14, BUTTON_HOME, BitSet(Byte(r, 7), 1))
        s16 == SetButton(s15, BUTTON_TOUCH_PAD, BitSet(Byte(r, 7), 2))
    IN SetRightTrigger(SetLeftTrigger(s16, Byte(r, 8)), Byte(r, 9))

\* self._update_state(state): dispatch on the decoder class of the object
UpdateState(cls, r, s) ==
    CASE cls = "SwitchProDevice" -> SwitchProUpdateState(r, s)
      [] cls = "XInputDevice" -> XInputUpdateState(r, s)
      [] cls = "AdafruitSnesDevice" -> AdafruitSnesUpdateState(r, s)
      [] cls = "Zero2Device" -> Zero2UpdateState(r, s)
      [] cls = "PowerAWiredDevice" -> PowerAWiredUpdateState(r, s)
      [] cls = "DualShock4Device" -> DualShock4UpdateState(r, s)
      [] OTHER -> s

\* ------------------------------------------------------------ transport data
\* The packets the transport may deliver to a polling read of a decoder
\* class: full reports, one short report, and the empty read; only the
\* first full report and the empty read when the transport profile is not
\* rich.
PollPackets(cls, rich) ==
    CASE cls = "SwitchProDevice" ->
             { Packet(<<48, 0, 8>>, 64), <<>> }
             \cup IF rich THEN { Packet(<<48, 1, 9, 2, 2>>, 64), <<48, 2, 1>> }
                  ELSE {}
      [] cls = "XInputDevice" ->
             { Packet(<<0, 20, 1, 32, 128, 0, 0, 64>>, 20), <<>> }
             \cup IF rich
                  THEN { Packet(<<0, 20, 0, 0, 0, 255, 0, 128, 1, 128, 255, 127>>, 20),
                         <<0, 20, 16>> }
                  ELSE {}
      [] OTHER -> { <<>> }

\* No read was issued
NoRead == [kind |-> "none", data |-> <<>>]

\* What the transport may answer to one polling read: a packet, or one of
\* the two exceptions of device.read
PollReads(cls, rich, may_time_out) ==
    { [kind |-> "data", data |-> p] : p \in PollPackets(cls, rich) }
    \cup { [kind |-> "USBError", data |-> <<>>] }
    \cup IF may_time_out THEN { [kind |-> "USBTimeoutError", data |-> <<>>] } ELSE {}

\* What a read during initialization (handshake ACK, flush) may deliver.
InitPackets(cls) ==
    CASE cls = "SwitchProDevice" -> { <<129, 1, 0, 3>> }
      [] cls = "XInputDevice" -> { Packet(<<0, 20, 0, 16>>, 20) }
      [] OTHER -> { <<>> }


\* ------------------------------------------------------------ Device
\* Saturation point of the elapsed-time counters (ticks)
MaxElapsed == SEARCH_DELAY * TicksPerSecond

\* self._device is None.  In a device record since is the elapsed time since
\* Device._timestamp; since_read is a history counter, the elapsed time since
\* the latest polling read attempt, saturated while there has been none.
NoDevice ==
    [handle |-> 0, device_type |-> DEVICE_TYPE_UNKNOWN, cls |-> "None", led |-> 0,
     has_in |-> FALSE, has_out |-> FALSE, report |-> <<>>,
     previous_report |-> <<>>, interval |-> 0, since |-> 0, since_read |-> 0]

\* Result of constructing a decoder object: kind is "ok" or the exception
\* raised; acked counts the handshake packets acknowledged.
Created(dev, n) == [kind |-> "ok", device |-> dev, acked |-> n]
Raised(exc, n) == [kind |-> exc, device |-> NoDevice, acked |-> n]

\* The poll interval in milliseconds computed by Device.__init__
PollInterval(raw, speed_high) ==
    IF speed_high THEN (2 * 2 ^ (raw - 1)) \div 8 ELSE raw

\* Device.__init__ for interface 0 of configuration 0: the endpoint check,
\* set_configuration (which may raise), buffers, interval and timestamp.
DeviceInit(d, device_type, cls) ==
    LET itf == World[d].interfaces[1]
        in == InEndpoint(itf)
        out == OutEndpoint(itf)
        insize == IF in # <<>> THEN in[1].max_packet_size ELSE 0
        outsize == IF out # <<>> THEN out[1].max_packet_size ELSE 0
        inival == IF in # <<>> THEN in[1].interval ELSE 0
        outival == IF out # <<>> THEN out[1].interval ELSE 0
        size == Min(64, Max(insize, outsize))
    IN IF in = <<>> /\ out = <<>>
       THEN { Raised("ValueError", 0) }
       ELSE { Raised("USBError", 0), Raised("USBTimeoutError", 0),
              Created([handle |-> d, device_type |-> device_type, cls |-> cls,
                       led |-> 0, has_in |-> in # <<>>, has_out |-> out # <<>>,
                       report |-> Zeros(size), previous_report |-> Zeros(size),
                       interval |-> PollInterval(Max(inival, outival),
                                                 World[d].speed_high),
                       since |-> 0, since_read |-> MaxElapsed], 0) }

\* Device.write(data) with acknowledge: "true", "false", or the USBError that
\* device.write raised; an ACK read leaves its bytes in the report buffer.
\* how tells the path taken: no out endpoint, device.write timed out,
\* device.write raised another USBError, none of the eight ACK reads
\* returned, or one of them did.
DeviceWrite(dev) ==
    IF ~dev.has_out
    THEN { [result |-> "false", how |-> "no endpoint", report |-> dev.report] }
    ELSE { [result |-> "false", how |-> "write timeout", report |-> dev.report],
           [result |-> "false", how |-> "no acknowledgement",
            report |-> dev.report],
           [result |-> "USBError", how |-> "write error", report |-> dev.report] }
         \cup { [result |-> "true", how |-> "acknowledged",
                 report |-> ReadInto(dev.report, a)] :
                  a \in IF dev.has_in THEN InitPackets(dev.cls) ELSE { <<>> } }

\* Device.flush(): eight reads, timeouts ignored, any other USBError raised
DeviceFlush(dev) ==
    IF ~dev.has_in
    THEN { Created(dev, 0) }
    ELSE { Created(dev, 0), Raised("USBError", 0) }
         \cup { Created([dev EXCEPT !.report = ReadInto(dev.report, a)], 0) :
                  a \in InitPackets(dev.cls) }

\* The handshake messages of SwitchProDevice.__init__, in order
SWITCH_PRO_HANDSHAKE ==
    << <<128, 1>>, <<128, 2>>, <<128, 3>>, <<128, 2>>, <<128, 4>>,
       <<1, 6, 0, 0, 0, 0, 0, 0, 0, 0, 3, 48>>,
       <<1, 11, 0, 0, 0, 0, 0, 0, 0, 0, 56, 1, 0, 0, 17, 17>> >>

\* The handshake of SwitchProDevice.__init__ before its first message: the
\* device, the messages handed to device.write, the number acknowledged, the
\* path of the last self.write and where the constructor stands
HandshakeStart(dev) ==
    [device |-> dev, sent |-> <<>>, acked |-> 0, how |-> "none",
     status |-> "handshake"]

\* A handshake loop that goes on to the next message whatever self.write
\* returned
HandshakeIgnoresResult(h, w) ==
    [device |-> [h.device EXCEPT !.report = w.report],
     sent |-> IF w.how = "no endpoint" THEN h.sent
              ELSE Append(h.sent, SWITCH_PRO_HANDSHAKE[Len(h.sent) + 1]),
     acked |-> IF w.result = "true" THEN h.acked + 1 ELSE h.acked,
     how |-> w.how,
     status |-> IF w.result = "USBError" THEN "USBError"
                ELSE IF Len(h.sent) + 1 >= Len(SWITCH_PRO_HANDSHAKE)
                THEN "initialized" ELSE "handshake"]

\* One turn of the handshake loop, self.write(msg) having taken path w:
\* "if not self.write(msg): raise ValueError"; a USBError of device.write
\* leaves the constructor as it is
HandshakeMessage(h, w) ==
    [device |-> [h.device EXCEPT !.report = w.report],
     sent |-> IF w.how = "no endpoint" THEN h.sent
              ELSE Append(h.sent, SWITCH_PRO_HANDSHAKE[h.acked + 1]),
     acked |-> IF w.result = "true" THEN h.acked + 1 ELSE h.acked,
     how |-> w.how,
     status |-> CASE w.result = "true" ->
                       IF h.acked + 1 = Len(SWITCH_PRO_HANDSHAKE)
                       THEN "initialized" ELSE "handshake"
                  [] w.result = "false" -> "ValueError"
                  [] OTHER -> w.result]

\* The handshake loop of SwitchProDevice.__init__ after k acknowledged messages
RECURSIVE SwitchProHandshake(_, _)
SwitchProHandshake(dev, k) ==
    IF k = Len(SWITCH_PRO_HANDSHAKE)
    THEN { Created(dev, k) }
    ELSE UNION { LET h == HandshakeMessage([HandshakeStart(dev) EXCEPT !.acked = k], w)
                 IN IF h.status \in {"handshake", "initialized"}
                    THEN SwitchProHandshake(h.device, h.acked)
                    ELSE { Raised(h.status, k) } :
                 w \in DeviceWrite(dev) }

\* The decoder class _create_device instantiates for a device type
DecoderClass(device_type) ==
    CASE device_type = DEVICE_TYPE_SWITCH_PRO -> "SwitchProDevice"
      [] device_type = DEVICE_TYPE_XINPUT -> "XInputDevice"
      [] device_type = DEVICE_TYPE_ADAFRUIT_SNES -> "AdafruitSnesDevice"
      [] device_type = DEVICE_TYPE_8BITDO_ZERO2 -> "Zero2Device"
      [] device_type = DEVICE_TYPE_POWERA_WIRED -> "PowerAWiredDevice"
      [] device_type = DEVICE_TYPE_PLAYSTATION_DS4 -> "DualShock4Device"
      [] device_type = DEVICE_TYPE_HID_JOYSTICK -> "HIDJoystickDevice"
      [] OTHER -> "None"

\* The device type each decoder class hands to Device.__init__
ClassDeviceType(cls) ==
    CASE cls = "SwitchProDevice" -> DEVICE_TYPE_SWITCH_PRO
      [] cls = "XInputDevice" -> DEVICE_TYPE_XINPUT
      [] cls = "AdafruitSnesDevice" -> DEVICE_TYPE_ADAFRUIT_SNES
      [] cls = "Zero2Device" -> DEVICE_TYPE_ADAFRUIT_SNES
      [] cls = "PowerAWiredDevice" -> DEVICE_TYPE_POWERA_WIRED
      [] cls = "DualShock4Device" -> DEVICE_TYPE_PLAYSTATION_DS4
      [] cls = "HIDJoystickDevice" -> DEVICE_TYPE_HID_JOYSTICK
      [] OTHER -> DEVICE_TYPE_UNKNOWN

\* _create_device: the class constructor, Device.__init__ first and then the
\* family's own initialization
CreateDevice(d, device_type) ==
    LET cls == DecoderClass(device_type)
    IN IF cls = "None"
       THEN { Raised("ValueError", 0) }
       ELSE UNION { IF c.kind # "ok" THEN { c }
                    ELSE CASE cls = "SwitchProDevice" -> SwitchProHandshake(c.device, 0)
                           [] cls = "XInputDevice" -> DeviceFlush(c.device)
                           [] OTHER -> { c } :
                    c \in DeviceInit(d, ClassDeviceType(cls), cls) }

\* An led message with only the bit of the highest lit led set
SwitchProLedMessageOneBit(led) ==
    <<1, 10, 0, 0, 0, 0, 0, 0, 0, 0, 48, IF led > 0 THEN 2 ^ (led - 1) ELSE 0>>

\* RECURSIVE sum of the bits 1 << i the setter loops or into the last byte
RECURSIVE LedBits(_, _)
LedBits(led, i) ==
    IF i < 0 THEN 0
    ELSE (IF led > i THEN 2 ^ i ELSE 0) + LedBits(led, i - 1)

\* The message of the SwitchProDevice.led setter: the template with
\* "msg[len(msg) - 1] |= 1 << i" for every i in range(4) below led
SwitchProLedMessage(led) ==
    <<1, 10, 0, 0, 0, 0, 0, 0, 0, 0, 48, LedBits(led, 3)>>

\* SwitchProDevice.led setter: value is None when none holds; the index
\* stored and the message handed to self.write
SwitchProSetLed(none, value) ==
    LET led == Min(Max(IF none THEN 0 ELSE value, 0), 4)
    IN [led |-> led, msg |-> SwitchProLedMessage(led)]

\* The interface index DualShock4Device.__init__ leaves its loop with: the
\* first interface of class (0x03, 0x00), else the last interface, the loop
\* having run to its end without a break; -1 when the list is empty and the
\* loop variable was never bound
DualShock4InterfaceIndex(interfaces) ==
    LET hid == {i \in 1..Len(interfaces) : interfaces[i].class = <<3, 0>>}
    IN IF hid # {}
       THEN (CHOOSE i \in hid : \A j \in hid : i <= j) - 1
       ELSE Len(interfaces) - 1

\* DualShock4Device.__init__ up to the endpoint check of Device.__init__ on
\* the interface chosen: reading the unbound index raises NameError, an
\* interface without endpoints ValueError
DualShock4Bind(interfaces) ==
    LET index == DualShock4InterfaceIndex(interfaces)
    IN IF index < 0
       THEN [status |-> "NameError", interface |-> index]
       ELSE IF interfaces[index + 1].endpoints = <<>>
       THEN [status |-> "ValueError", interface |-> index]
       ELSE [status |-> "bound", interface |-> index]

\* The palette of the DualShock4 light bar
DS4_COLORS == <<16777215, 255, 16711680, 65280, 16711935>>

\* The fields DualShock4Device.__init__ adds to the device; rumble and flash
\* are kept as the byte int(rumble * 255) & 0xFF and int(flash / 2.5 * 255) & 0xFF
\* they put into the control report
DualShock4Start ==
    [led |-> 0, color |-> 0, rumble |-> 0, flash |-> 0, exc |-> "none",
     written |-> <<>>]

\* DualShock4Device._update_control: the 32-byte control report
ControlReport(d) ==
    [i \in 1..32 |->
        CASE i = 1 -> 5
          [] i = 2 -> 255
          [] i \in {5, 6} -> d.rumble
          [] i \in 7..9 -> (d.color \div (2 ^ ((9 - i) * 8))) % 256
          [] i \in {10, 11} -> d.flash
          [] OTHER -> 0]

\* DualShock4Device.led setter: value is None when none holds.  The index is
\* stored before the palette is indexed; _DS4_COLORS[5] raises IndexError.
DualShock4SetLed(d, none, value) ==
    LET led == Min(Max(IF none THEN 0 ELSE value, 0), Len(DS4_COLORS))
    IN IF led + 1 > Len(DS4_COLORS)
       THEN [d EXCEPT !.led = led, !.exc = "IndexError"]
       ELSE LET c == [d EXCEPT !.led = led, !.color = DS4_COLORS[led + 1]]
            IN [c EXCEPT !.written = Append(d.written, ControlReport(c))]

\* gamepad_device.led = port: the led setter of the object's class.  The
\* SwitchPro, XInput and DualShock4 setters clamp and write a message (result
\* ignored, a USBError of device.write is raised), the DualShock4 setter
\* raising IndexError past its palette; the base setter only stores.
SetLed(c, port) ==
    LET dev == c.device
        top == CASE dev.cls = "SwitchProDevice" -> 4
                 [] dev.cls = "DualShock4Device" -> Len(DS4_COLORS)
                 [] OTHER -> 2
    IN IF dev.cls = "DualShock4Device"
          /\ DualShock4SetLed(DualShock4Start, FALSE, port).exc # "none"
       THEN { Raised("IndexError", c.acked) }
       ELSE IF dev.cls \in {"SwitchProDevice", "XInputDevice", "DualShock4Device"}
       THEN { IF w.result = "USBError"
              THEN Raised("USBError", c.acked)
              ELSE Created([dev EXCEPT !.led = Min(Max(port, 0), top),
                                       !.report = w.report], c.acked) :
              w \in DeviceWrite(dev) }
       ELSE { Created([dev EXCEPT !.led = port], c.acked) }

\* Device.read_state(state), reads being what the transport may answer:
\* the value returned or exception raised, the device, the state, the
\* transport's answer and what happened
\* A read_state that never skips the read
NeverThrottled(dev) == FALSE

\* The throttle test of read_state:
\* current_time - self._timestamp < self._interval / 1000
Throttled(dev) == dev.since * 1000 < dev.interval * TicksPerSecond

ReadState(dev, state, reads) ==
    LET result(kind, d, st, outcome, r) ==
            [kind |-> kind, device |-> d, state |-> st, outcome |-> outcome,
             read |-> r]
        polled == [dev EXCEPT !.since = 0, !.since_read = 0]
    IN IF Throttled(dev)
       THEN { result("false", dev, state, "throttled", NoRead) }
       ELSE IF ~dev.has_in
       THEN { result("false", polled, state, "empty", NoRead) }
       ELSE { IF r.kind = "USBTimeoutError"
              THEN result(r.kind, polled, state, "timeout", r)
              ELSE IF r.kind = "USBError"
              THEN result(r.kind, polled, state, "error", r)
              ELSE LET got == [polled EXCEPT !.report = ReadInto(dev.report, r.data)]
                       packet_size == Len(r.data)
                   IN IF packet_size = 0
                      THEN result("false", got, state, "empty", r)
                      ELSE IF ReportEquals(got.report, got.previous_report, packet_size)
                      THEN result("false", got, state, "same", r)
                      ELSE result("true",
                                  [got EXCEPT !.previous_report = got.report],
                                  UpdateState(got.cls, got.report, state),
                                  "decoded", r) :
              r \in reads }

\* ------------------------------------------------------------ descriptor parsing
\* adafruit_usb_host_descriptors.DESC_CONFIGURATION, DESC_INTERFACE and
\* DESC_ENDPOINT
DESC_CONFIGURATION == 2
DESC_INTERFACE == 4
DESC_ENDPOINT == 5

\* Descriptor.__init__(descriptor, length, descriptor_type): TRUE when it
\* does not raise ValueError.  The tests are made in this order, so the
\* first byte of an empty slice is never read.
DescriptorCheck(descriptor, length, descriptor_type) ==
    /\ Len(descriptor) = length
    /\ descriptor[1] = Len(descriptor)
    /\ descriptor[2] = descriptor_type

\* EndpointDescriptor.__init__ after the check
EndpointDescriptor(d) ==
    [address |-> d[3], attributes |-> d[4],
     max_packet_size |-> d[6] * 256 + d[5], interval |-> d[7]]

\* InterfaceDescriptor.__init__ after the check
InterfaceDescriptor(d) ==
    [index |-> d[3], endpoints |-> d[5], interface_class |-> d[6],
     interface_subclass |-> d[7], protocol |-> d[8], endpoint |-> <<>>]

\* config_descriptor[a:b] with Python's 0-based bounds
Slice(bytes, a, b) == SubSeq(bytes, a + 1, Min(b, Len(bytes)))

\* ConfigurationDescriptor.__init__ before the first iteration;
\* interface_index -1 is None
ParserStart ==
    [i |-> 0, interface |-> <<>>, interface_index |-> -1, status |-> "parsing"]

\* A scan that stops at the first record it does not know
ParseStopAtUnknown(cd, st) == [st EXCEPT !.status = "done"]

\* One evaluation of the loop test and, when it holds, one iteration of the
\* loop of ConfigurationDescriptor.__init__ on the bytes cd.  An iteration
\* that changes nothing is repeated forever: status "hang".
ParseStep(cd, st) ==
    IF st.i >= Len(cd) THEN [st EXCEPT !.status = "done"]
    ELSE IF Len(Slice(cd, st.i, st.i + 2)) # 2
    THEN [st EXCEPT !.status = "ValueError"]
    ELSE LET descriptor_len == cd[st.i + 1]
             descriptor_type == cd[st.i + 2]
             descriptor == Slice(cd, st.i, st.i + descriptor_len)
             raised == [st EXCEPT !.status = "ValueError"]
             next(t) == IF descriptor_len = 0 THEN [t EXCEPT !.status = "hang"]
                        ELSE [t EXCEPT !.i = st.i + descriptor_len]
         IN IF descriptor_type = DESC_CONFIGURATION
            THEN IF DescriptorCheck(descriptor, 9, DESC_CONFIGURATION)
                 THEN next(st) ELSE raised
            ELSE IF descriptor_type = DESC_INTERFACE
            THEN IF DescriptorCheck(descriptor, 9, DESC_INTERFACE)
                 THEN next([st EXCEPT
                              !.interface_index = Len(st.interface),
                              !.interface = Append(@, InterfaceDescriptor(descriptor))])
                 ELSE raised
            ELSE IF descriptor_type = DESC_ENDPOINT /\ st.interface_index # -1
            THEN IF DescriptorCheck(descriptor, 7, DESC_ENDPOINT)
                 THEN next([st EXCEPT
                              !.interface[st.interface_index + 1].endpoint =
                                  Append(@, EndpointDescriptor(descriptor))])
                 ELSE raised
            ELSE next(st)

\* ------------------------------------------------------------ state
\* gp        : the Gamepad objects (port, _device, _device_id, _state,
\*             _timeouts, elapsed time since _timestamp; mixed is a history
\*             flag: a read completed after a timeout counted in _timeouts;
\*             since_search is a history counter: elapsed time since this
\*             Gamepad last called _find_device, saturated from the start)
\* connected : the module list _connected_devices
\* failed    : the module list _failed_devices
\* last      : what the latest call did (history, for stating properties)
\* transport : the profile of the transport in this run: how many timeouts
\*             it produces per binding at most, whether it delivers the
\*             full set of packets, and how many ticks the initialisation
\*             of a device may take
\* probe     : the arguments and the result of a library function called on
\*             its own (used by SpecUnits only)
VARIABLES gp, connected, failed, last, transport, probe

vars == <<gp, connected, failed, last, transport, probe>>

\* Most timeouts the transport produces per binding under Spec
MaxTimeoutsSeen == 3

\* Longest time a successful device initialization may take (ticks)
MaxInitTicks == 1

\* The ports the modelled Gamepad may be constructed with (0 is None)
GamepadPorts == {0}

\* Gamepad.__init__
GamepadInit(port) ==
    [port |-> port, device |-> NoDevice, device_id |-> <<>>, state |-> StateInit,
     timeouts |-> 0, since |-> SEARCH_DELAY * TicksPerSecond, mixed |-> FALSE,
     since_search |-> MaxElapsed]

\* The record of a call: op and g name it, ret is the boolean returned and
\* exc the exception that reached the caller ("none" if it returned);
\* searched, log and ended tell whether _find_device ran, which candidates
\* it examined and whether its loop reached the end of the enumeration;
\* polled is the handle of the device whose read_state was called (0 if
\* none) and read what the transport answered to the polling read; outcome
\* and disconnected tell how the call ended.
NoCall ==
    [op |-> "none", g |-> 0, ret |-> FALSE, exc |-> "none", outcome |-> "none",
     searched |-> FALSE, log |-> <<>>, ended |-> FALSE,
     polled |-> 0, read |-> NoRead, disconnected |-> FALSE]

\* ------------------------------------------------------------ _find_device
\* The result of _find_device: the device returned (NoDevice for None), the
\* registries, the exception that left it, the log of the candidates it
\* examined and whether the loop reached the end of the enumeration
Found(dev, conn, fail, exc, log, ended) ==
    [device |-> dev, connected |-> conn, failed |-> fail, exc |-> exc,
     log |-> log, ended |-> ended]

\* One entry of the search log, for a candidate d whose descriptors
\* _find_device tried to fetch:
\*   "descriptor" DeviceDescriptor(device) raised USBError     (quarantined)
\*   "unknown"    classified DEVICE_TYPE_UNKNOWN                (quarantined)
\*   "init"       _create_device raised ValueError             (quarantined)
\*   "raised"     another exception left _find_device
\*   "bound"      returned as the gamepad's device
\* acked counts the handshake packets acknowledged.
Exam(d, verdict, acked) == [d |-> d, verdict |-> verdict, acked |-> acked]

QuarantineVerdicts == {"descriptor", "unknown", "init"}

\* A search that does not look at the port path
NoPortFilter(port, d) == FALSE

\* The port filter of _find_device: TRUE when the candidate is skipped
PortMismatch(port, d) ==
    /\ port # 0
    /\ \/ port # 1 /\ World[d].port_numbers = <<>>
       \/ World[d].port_numbers # <<>> /\ World[d].port_numbers # <<port>>

\* A registry filter that forgets the failed registry
ExcludedIgnoresFailed(port, id, conn, fail) ==
    \E i \in 1..Len(conn) : conn[i] = <<port>> \o id

\* (port,) + device_id in _connected_devices or device_id in _failed_devices
Excluded(port, id, conn, fail) ==
    \/ \E i \in 1..Len(conn) : conn[i] = <<port>> \o id
    \/ \E i \in 1..Len(fail) : fail[i] = id

\* _failed_devices.append(device_id)
Quarantine(fail, id) == Append(fail, id)

\* A loop that would end at the first quarantined candidate
StopSearch(rest, stopped) == stopped

\* What follows a quarantine insertion inside the loop: `continue` (or the
\* end of the loop body), i.e. the rest of the enumeration; stopped is the
\* result the call would have if the loop ended there.
ContinueSearch(rest, stopped) == rest

\* The loop of _find_device from the k-th enumerated device on
RECURSIVE FindDevice(_, _, _, _, _)
FindDevice(k, port, conn, fail, log) ==
    IF k > Len(World)
    THEN { Found(NoDevice, conn, fail, "none", log, TRUE) }
    ELSE LET id == DeviceId(k)
             type == GetDeviceType(k)
             passed == FindDevice(k + 1, port, conn, fail, log)
             quarantined(verdict, n) ==
                 LET l == Append(log, Exam(k, verdict, n))
                     f == Quarantine(fail, id)
                 IN ContinueSearch(FindDevice(k + 1, port, conn, f, l),
                                   { Found(NoDevice, conn, f, "none", l, FALSE) })
             raised(exc, n) ==
                 Found(NoDevice, conn, fail, exc, Append(log, Exam(k, "raised", n)),
                       FALSE)
         IN IF Excluded(port, id, conn, fail) \/ PortMismatch(port, k)
            THEN passed
            ELSE \* device.idVendor raised USBError
                 passed
                 \cup \* DeviceDescriptor(device) raised USBError
                 quarantined("descriptor", 0)
                 \cup \* descriptor read: classify, create, set the led
                 ( IF type = DEVICE_TYPE_UNKNOWN
                   THEN quarantined("unknown", 0)
                   ELSE UNION {
                     IF c.kind = "ok"
                     THEN { IF l.kind = "ok"
                            THEN Found(l.device, Append(conn, <<port>> \o id), fail,
                                       "none", Append(log, Exam(k, "bound", l.acked)),
                                       FALSE)
                            ELSE raised(l.kind, l.acked) :
                            l \in SetLed(c, port) }
                     ELSE IF c.kind = "ValueError"
                     THEN quarantined("init", c.acked)
                     ELSE { raised(c.kind, c.acked) } :
                     c \in CreateDevice(k, type) } )

\* ------------------------------------------------------------ Gamepad
\* Remove the first occurrence of e from the list (list.remove)
RECURSIVE ListRemove(_, _)
ListRemove(list, e) ==
    IF list = <<>> THEN <<>>
    ELSE IF Head(list) = e THEN Tail(list)
    ELSE <<Head(list)>> \o ListRemove(Tail(list), e)

\* A disconnect that leaves the timeout counter as it is
DisconnectKeepsTimeouts(p, conn) ==
    IF p.device.handle = 0
    THEN [ret |-> FALSE, gp |-> p, connected |-> conn]
    ELSE [ret |-> TRUE,
          gp |-> [p EXCEPT !.device = NoDevice, !.device_id = <<>>,
                           !.state = StateReset(p.state), !.mixed = FALSE],
          connected |-> ListRemove(conn, <<p.port>> \o p.device_id)]

\* A disconnect that leaves the entry in _connected_devices
DisconnectKeepsClaim(p, conn) ==
    IF p.device.handle = 0
    THEN [ret |-> FALSE, gp |-> p, connected |-> conn]
    ELSE [ret |-> TRUE,
          gp |-> [p EXCEPT !.device = NoDevice, !.device_id = <<>>,
                           !.timeouts = 0, !.state = StateReset(p.state),
                           !.mixed = FALSE],
          connected |-> conn]

\* A disconnect that does not look whether a device is bound
DisconnectUnguarded(p, conn) ==
    [ret |-> TRUE,
     gp |-> [p EXCEPT !.device = NoDevice, !.device_id = <<>>,
                      !.timeouts = 0, !.state = StateReset(p.state),
                      !.mixed = FALSE],
     connected |-> conn]

\* Gamepad.disconnect on gamepad record p: <<return value, p, connected>>
DoDisconnect(p, conn) ==
    IF p.device.handle = 0
    THEN [ret |-> FALSE, gp |-> p, connected |-> conn]
    ELSE [ret |-> TRUE,
          gp |-> [p EXCEPT !.device = NoDevice, !.device_id = <<>>,
                           !.timeouts = 0, !.state = StateReset(p.state),
                           !.mixed = FALSE],
          connected |-> ListRemove(conn, <<p.port>> \o p.device_id)]


\* A clock whose advance the search timestamp test does not see
ElapseKeepsSearchClock(p, dt) ==
    [p EXCEPT !.since_search = Min(p.since_search + dt, MaxElapsed)]

\* Elapsed-time counters advance by dt ticks and saturate
Elapse(p, dt) ==
    [p EXCEPT !.since = Min(p.since + dt, MaxElapsed),
              !.since_search = Min(p.since_search + dt, MaxElapsed),
              !.device.since = IF p.device.handle = 0 THEN 0
                               ELSE Min(p.device.since + dt, MaxElapsed),
              !.device.since_read =
                  IF p.device.handle = 0 THEN 0
                  ELSE Min(p.device.since_read + dt, MaxElapsed)]

\* The search step of Gamepad.update on gamepad record p (button changes
\* already reset): every <<p, connected, failed, exception, log>> it may
\* end in.  When _find_device raises, nothing after it is executed.
SearchStep(p, conn, fail) ==
    LET step(q, f, did) ==
            [gp |-> q, connected |-> f.connected, failed |-> f.failed,
             exc |-> f.exc, log |-> f.log, ended |-> f.ended, searched |-> did]
    IN IF p.device.handle = 0 /\ p.since >= SEARCH_DELAY * TicksPerSecond
       THEN UNION {
              IF f.exc # "none"
              THEN { step([p EXCEPT !.since_search = 0], f, TRUE) }
              ELSE IF f.device.handle = 0
              THEN { step([p EXCEPT !.since = 0, !.since_search = 0], f, TRUE) }
              ELSE { step([p EXCEPT !.device = [f.device EXCEPT
                                                  !.since = Min(dt, MaxElapsed)],
                                    !.device_id = DeviceId(f.device.handle),
                                    !.since = 0, !.since_search = 0], f, TRUE) :
                     dt \in 0..transport.init_ticks } :
              f \in FindDevice(1, p.port, conn, fail, <<>>) }
       ELSE { step(p, Found(NoDevice, conn, fail, "none", <<>>, FALSE), FALSE) }

\* A handler that would disconnect and report no update
DisconnectReturnsFalse(ret) == FALSE

\* The value update() returns after its timeout/error handler disconnected:
\* `return self.disconnect()`
DisconnectReturn(ret) == ret

\* The value of _timeouts after a polling read that returned, given its
\* value t before the read: update() leaves it alone
TimeoutsAfterRead(t) == t

\* The polling step of Gamepad.update after the search step ended in r:
\* read_state and the two exception handlers
PollStep(r, call) ==
    LET p == r.gp
        reads == PollReads(p.device.cls, transport.rich,
                           p.timeouts < transport.max_timeouts)
        done(q, conn, ret, o, disc) ==
            [gp |-> q, connected |-> conn, failed |-> r.failed,
             last |-> [call EXCEPT !.ret = ret, !.outcome = o.outcome,
                                   !.read = o.read, !.log = r.log,
                                   !.ended = r.ended, !.searched = r.searched,
                                   !.polled = p.device.handle,
                                   !.disconnected = disc]]
    IN IF r.exc # "none"
       THEN { [gp |-> p, connected |-> r.connected, failed |-> r.failed,
               last |-> [call EXCEPT !.exc = r.exc, !.outcome = "raised",
                                     !.log = r.log, !.ended = r.ended,
                                     !.searched = r.searched]] }
       ELSE IF p.device.handle = 0
       THEN { done(p, r.connected, FALSE,
                   [outcome |-> "nodevice", read |-> NoRead], FALSE) }
       ELSE { LET q == [p EXCEPT !.device = o.device, !.state = o.state]
              IN CASE o.kind = "USBTimeoutError" ->
                        LET t == [q EXCEPT !.timeouts = p.timeouts + 1]
                            d == DoDisconnect(t, r.connected)
                        IN IF t.timeouts > MAX_TIMEOUTS
                           THEN done(d.gp, d.connected, DisconnectReturn(d.ret), o, TRUE)
                           ELSE done(t, r.connected, FALSE, o, FALSE)
                   [] o.kind = "USBError" ->
                        LET d == DoDisconnect(q, r.connected)
                        IN done(d.gp, d.connected, DisconnectReturn(d.ret), o, TRUE)
                   [] OTHER ->
                        done([q EXCEPT !.timeouts =
                                          IF o.outcome = "throttled" THEN p.timeouts
                                          ELSE TimeoutsAfterRead(p.timeouts),
                                       !.mixed = p.mixed \/
                                          (o.outcome # "throttled" /\ p.timeouts > 0)],
                             r.connected, o.kind = "true", o, FALSE) :
              o \in ReadState(p.device, p.state, reads) }

\* A Python value returned by an accessor: an int or a tuple of ints
PyInt(n) == [type |-> "int", value |-> <<n>>]
PyTuple(t) == [type |-> "tuple", value |-> t]

\* Device.device_id: (idVendor, idProduct) of the usb device
DeviceDeviceId(dev) == PyTuple(DeviceId(dev.handle))

\* Gamepad.device_type on gamepad record p
GamepadDeviceType(p) ==
    IF p.device.handle # 0 THEN DeviceDeviceId(p.device)
    ELSE PyInt(DEVICE_TYPE_UNKNOWN)

\* Gamepad.events on gamepad record p
GamepadEvents(p) == ButtonsEvents(p.state.buttons)

\* Gamepad.connected on gamepad record p
GamepadConnected(p) == p.device.handle # 0

\* self._state.buttons._changed = 0
ResetChanged(p) == [p EXCEPT !.state.buttons.changed = {}]

\* Gamepad.update() on gamepad g: every result of the whole call
UpdateOutcomes(g) ==
    LET p == ResetChanged(gp[g])
        call == [NoCall EXCEPT !.op = "update", !.g = g]
    IN UNION { PollStep(r, call) : r \in SearchStep(p, connected, failed) }

\* No library function is being called on its own
NoProbe == [fn |-> "none", arg |-> <<>>, out |-> <<>>, done |-> FALSE]

\* ------------------------------------------------------------ actions
Init ==
    /\ \E port \in GamepadPorts : gp = <<GamepadInit(port)>>
    /\ connected = <<>>
    /\ failed = <<>>
    /\ last = NoCall
    /\ transport = [max_timeouts |-> MaxTimeoutsSeen, rich |-> TRUE,
                    init_ticks |-> MaxInitTicks]
    /\ probe = NoProbe

\* gamepad.update()
Update(g) ==
    \E u \in UpdateOutcomes(g) :
        /\ gp' = [gp EXCEPT ![g] = u.gp]
        /\ connected' = u.connected
        /\ failed' = u.failed
        /\ last' = u.last
        /\ UNCHANGED <<transport, probe>>

\* gamepad.disconnect() called by the application
Disconnect(g) ==
    LET d == DoDisconnect(gp[g], connected)
    IN /\ gp' = [gp EXCEPT ![g] = d.gp]
       /\ connected' = d.connected
       /\ failed' = failed
       /\ last' = [NoCall EXCEPT !.op = "disconnect", !.g = g, !.ret = d.ret,
                                 !.disconnected = d.ret]
       /\ UNCHANGED <<transport, probe>>

\* time.monotonic() advances by one tick between two calls
Tick ==
    /\ gp' = [g \in DOMAIN gp |-> Elapse(gp[g], 1)]
    /\ last' = NoCall
    /\ UNCHANGED <<connected, failed, transport, probe>>

Next ==
    \/ \E g \in DOMAIN gp : Update(g)
    \/ \E g \in DOMAIN gp : Disconnect(g)
    \/ Tick

Spec == Init /\ [][Next]_vars

\* One Gamepad and a transport whose polling reads never time out, that
\* delivers one packet per family and initialises a device within the tick
InitLive ==
    /\ \E port \in GamepadPorts : gp = <<GamepadInit(port)>>
    /\ connected = <<>>
    /\ failed = <<>>
    /\ last = NoCall
    /\ transport = [max_timeouts |-> 0, rich |-> FALSE, init_ticks |-> 0]
    /\ probe = NoProbe

\* An update() of the first Gamepad can bind a device: no device is bound,
\* the search delay has elapsed and some
\* device of a supported family with an endpoint on interface 0 is on the
\* Gamepad's port, its id neither claimed nor in the failed registry
BindPossible ==
    /\ gp[1].device.handle = 0
    /\ gp[1].since >= SEARCH_DELAY * TicksPerSecond
    /\ \E d \in Handles :
         /\ GetDeviceType(d) # DEVICE_TYPE_UNKNOWN
         /\ World[d].interfaces[1].endpoints # <<>>
         /\ ~PortMismatch(gp[1].port, d)
         /\ ~Excluded(gp[1].port, DeviceId(d), connected, failed)

\* The state a binding update() ends in
JustBound == last.op = "update" /\ last.searched /\ gp[1].device.handle # 0

\* The application keeps calling update() on the first Gamepad
KeepsUpdating == []<>(last.op = "update" /\ last.g = 1)

\* An initialization that can be tried again and again succeeds at last:
\* strong fairness of the binding update(), stated over the states in which
\* it is enabled and the states it ends in
InitializationSucceeds == <>[]~BindPossible \/ []<>JustBound

\* The same program with time that advances, an application that keeps
\* calling update() and a transport on which initialization succeeds
SpecLive ==
    /\ InitLive
    /\ [][Next]_vars
    /\ WF_vars(Tick)
    /\ KeepsUpdating
    /\ InitializationSucceeds

\* The same program with a transport that may time out without limit and
\* delivers one packet per family
InitTimeouts ==
    /\ \E port \in GamepadPorts : gp = <<GamepadInit(port)>>
    /\ connected = <<>>
    /\ failed = <<>>
    /\ last = NoCall
    /\ transport = [max_timeouts |-> MAX_TIMEOUTS + 1, rich |-> FALSE,
                    init_ticks |-> MaxInitTicks]
    /\ probe = NoProbe

SpecTimeouts == InitTimeouts /\ [][Next]_vars

\* The port pairs two Gamepad objects are constructed with under SpecMulti
GamepadPortPairs == {<<0, 0>>, <<0, 1>>, <<1, 2>>}

\* Two Gamepad objects sharing the module registries, with a transport
\* whose polling reads never time out, that delivers one packet per
\* family and initialises a device within the tick
InitMulti ==
    /\ \E ports \in GamepadPortPairs :
           gp = <<GamepadInit(ports[1]), GamepadInit(ports[2])>>
    /\ connected = <<>>
    /\ failed = <<>>
    /\ last = NoCall
    /\ transport = [max_timeouts |-> 0, rich |-> FALSE, init_ticks |-> 0]
    /\ probe = NoProbe

SpecMulti == InitMulti /\ [][Next]_vars

\* ------------------------------------------------------------ functions on their own
\* The library's functions called directly, each on arguments drawn from a
\* bounded set; no Gamepad object exists in these runs.

\* Devices handed to _get_device_type: ids in and outside the id table, class
\* identifiers in and outside the class table, interface 0 with no HID
\* descriptor, with the joystick usage and with another usage
ProbeIds == {<<1406, 8201>>, <<2079, 58369>>, <<1118, 654>>, <<1133, 49734>>}
ProbeClassIdentifiers ==
    {<<0, 0, 3, 0>>, <<0, 0, 255, 93>>, <<0, 0, 255, 255>>,
     <<255, 255, 3, 0>>, <<255, 255, 255, 93>>, <<255, 93, 255, 255>>}
ProbeUsages == {<<>>, <<USAGE_PAGE_GENERIC_DESKTOP, USAGE_JOYSTICK>>,
                <<USAGE_PAGE_GENERIC_DESKTOP, 6>>}

ClassifyArgs ==
    {[id |-> id, class_identifier |-> ci, hid_usage |-> u] :
        id \in ProbeIds, ci \in ProbeClassIdentifiers, u \in ProbeUsages}

\* Gamepad objects whose buttons are in every combination of pressed and
\* changed bits over four of the buttons
ProbeButtons == {BUTTON_A, BUTTON_UP, BUTTON_L2, BUTTON_TOUCH_PAD}
EventsArgs ==
    {[GamepadInit(0) EXCEPT !.state.buttons = [pressed |-> pr, changed |-> ch]] :
        pr \in SUBSET ProbeButtons, ch \in SUBSET ProbeButtons}

\* State objects with a threshold written through its setter and a trigger
\* left released or fully pressed, and the integers then written to a
\* trigger: below, at and above both ends of the range and around the
\* thresholds
ProbeThresholds == {0, 1, 127, 128, 255, 300}
ProbeTriggerValues == {-300, -1, 0, 1, 126, 127, 128, 254, 255, 256, 300}
TriggerArgs ==
    {[state |-> SetRightTrigger(SetLeftTrigger(SetTriggerThreshold(StateInit, t),
                                               before), before),
      value |-> v] :
        t \in ProbeThresholds, before \in {0, 255}, v \in ProbeTriggerValues}

\* Deadzones written through the setter, and pairs lo <= hi of axis values:
\* a sweep over the whole range and past both extremes, and the values
\* around zero, the deadzone boundaries and the extremes, each paired with
\* its successor and with the value one stride up
ProbeDeadzones == {-5, 0, 1, DEFAULT_JOYSTICK_DEADZONE, 16384, 32766, 40000}
AxisSweep ==
    {k * AxisStride : k \in -(32768 \div AxisStride + 1)..(32768 \div AxisStride + 1)}
AxisEdges(d) ==
    {e + k : e \in {-32767, -d, 0, d, 32767}, k \in -2..2}
DeadzoneArgs ==
    UNION {
      LET s == SetJoystickDeadzone(StateInit, d)
      IN {[state |-> s, lo |-> x, hi |-> x + step] :
             x \in AxisSweep \cup AxisEdges(s.joystick_deadzone),
             step \in {1, AxisStride}} :
      d \in ProbeDeadzones }

\* State objects with threshold, deadzone and x inversion configured, and
\* the (x, y) pairs then written to a joystick: zero, the threshold and its
\* neighbours on both sides, the extremes and values beyond them
ProbeJoystickThresholds == {0, 1, DEFAULT_JOYSTICK_THRESHOLD, 32767, 40000}
ProbeJoystickDeadzones == {0, DEFAULT_JOYSTICK_DEADZONE, 16384, 32766}
JoystickValues(t) ==
    {0, 32767, -32767, 40000, -40000} \cup
    {sign * (t + k) : sign \in {-1, 1}, k \in -1..1}
JoystickArgs ==
    UNION {
      LET s == [SetJoystickDeadzone(SetJoystickThreshold(StateInit, t), d)
                   EXCEPT !.left_joystick_invert_x = inv,
                          !.right_joystick_invert_x = inv]
      IN UNION {{[state |-> s, x |-> v, y |-> 0], [state |-> s, x |-> 0, y |-> v],
                 [state |-> s, x |-> v, y |-> v], [state |-> s, x |-> v, y |-> -v]} :
                v \in JoystickValues(s.joystick_threshold)} :
      t \in ProbeJoystickThresholds, d \in ProbeJoystickDeadzones,
      inv \in BOOLEAN }

\* The same State objects after a trigger, a button and the left joystick
\* were written, so that buttons are pressed and changed when the right
\* joystick is written
RightJoystickArgs ==
    {[a EXCEPT !.state = SetLeftJoystick(
                            SetButton(SetLeftTrigger(a.state, 200), BUTTON_A, TRUE),
                            20000, -a.x)] :
        a \in JoystickArgs}

\* Reports handed to a decoder, and the State objects they are decoded into:
\* the fresh one and one with every button pressed.  A bit byte has no bit,
\* one bit or all bits set.
ProbeBitBytes == {0, 255} \cup {2 ^ k : k \in 0..7}
ProbeStates == {StateInit, [StateInit EXCEPT !.buttons.pressed = ButtonIds]}
XInputReports ==
    {<<pad, pad, b2, b3, lt, rt>> \o Zeros(8) :
        pad \in {0, 255}, b2 \in ProbeBitBytes, b3 \in ProbeBitBytes,
        lt \in {0, 128, 255}, rt \in {0, 128, 255}}
\* Reports of the D-pad families.  Byte 2 runs over the hat codes 0..8, the
\* idle code 15 and 255; bytes 0 and 1 of an Adafruit SNES report run over
\* the ends, the centre and two hat codes of an axis byte.
ProbeHatCodes == 0..8 \cup {15, 255}
ProbeAxisBytes == {0, 1, 7, 127, 128, 255}
HatReports ==
    {<<b0, b1, hat>> \o Zeros(5) :
        b0 \in {0, 255}, b1 \in {0, 255}, hat \in ProbeHatCodes}
AdafruitSnesReports ==
    {<<x, y, hat, 0, 0, b5, b6, 0>> :
        x \in ProbeAxisBytes, y \in ProbeAxisBytes, hat \in {0, 4, 7, 15},
        b5 \in {0, 255}, b6 \in {0, 255}}
\* DualShock4 reports: byte 5 carries a hat code in its low four bits and
\* the face buttons in its high four bits
ProbeFaceBits == {0, 16, 32, 64, 128, 240}
DualShock4Reports ==
    {<<1, lx, 128, 128, ly, hat + face, b6, b7, lt, 0>> :
        lx \in {0, 128, 255}, ly \in {0, 128}, hat \in 0..8,
        face \in ProbeFaceBits, b6 \in {0, 255}, b7 \in {0, 3}, lt \in {0, 255}}
UpdateStateArgs ==
    {[cls |-> "XInputDevice", report |-> r, state |-> st] :
        r \in XInputReports, st \in ProbeStates}
    \cup {[cls |-> c, report |-> r, state |-> st] :
            c \in {"Zero2Device", "PowerAWiredDevice"}, r \in HatReports,
            st \in ProbeStates}
    \cup {[cls |-> "AdafruitSnesDevice", report |-> r, state |-> st] :
            r \in AdafruitSnesReports, st \in ProbeStates}
    \cup {[cls |-> "DualShock4Device", report |-> r, state |-> st] :
            r \in DualShock4Reports, st \in ProbeStates}

\* Configuration descriptors handed to the parser.  A stream is the
\* configuration record followed by interface ("I"), endpoint ("E") and HID
\* class ("H") records; the record at position p carries p in a data byte
\* (interface number, endpoint address, report length).
ConfigurationRecord == <<9, DESC_CONFIGURATION, 0, 0, 1, 1, 0, 128, 50>>
InterfaceRecord(p) == <<9, DESC_INTERFACE, p, 0, 2, INTERFACE_HID, 0, 0, 0>>
EndpointRecord(p) == <<7, DESC_ENDPOINT, 128 + p, 3, 64, 0, 8>>
HidRecord(p) == <<9, 33, 17, 1, 0, 1, 34, p, 0>>
Record(kind, p) ==
    CASE kind = "I" -> InterfaceRecord(p)
      [] kind = "E" -> EndpointRecord(p)
      [] kind = "H" -> HidRecord(p)
      [] kind = "C" -> ConfigurationRecord

RECURSIVE Records(_, _)
Records(kinds, p) ==
    IF p > Len(kinds) THEN <<>> ELSE Record(kinds[p], p) \o Records(kinds, p + 1)

Stream(kinds) == ConfigurationRecord \o Records(kinds, 1)

Streams(n) == UNION {[1..m -> {"I", "E", "H"}] : m \in 0..n}

\* Well-formed streams; streams whose last record has lost its last bytes;
\* streams whose last record has length byte 0
WellFormedArgs ==
    {[bytes |-> Stream(kinds), kinds |-> kinds, tail |-> "none", tail_kind |-> "-"] :
        kinds \in Streams(MaxRecords)}
TruncatedArgs ==
    UNION {
      LET whole == Record(k, Len(kinds) + 1)
      IN {[bytes |-> Stream(kinds) \o SubSeq(whole, 1, n), kinds |-> kinds,
           tail |-> "truncated", tail_kind |-> k] : n \in 1..(Len(whole) - 1)} :
      kinds \in Streams(1), k \in {"C", "I", "E", "H"} }
ZeroLengthArgs ==
    {[bytes |-> Stream(kinds) \o <<0, Record(k, 0)[2], 0>>, kinds |-> kinds,
      tail |-> "zero", tail_kind |-> k] :
        kinds \in Streams(1), k \in {"C", "I", "E", "H"}}
ParserArgs == WellFormedArgs \cup TruncatedArgs \cup ZeroLengthArgs

\* Switch Pro devices as Device.__init__ leaves them: with or without an in
\* and an out endpoint, the report buffer zeroed
HandshakeArgs ==
    { [cls |-> "SwitchProDevice", has_in |-> i, has_out |-> o,
       report |-> Zeros(4)] : i, o \in BOOLEAN }

\* LED indices handed to a led setter: None, and the integers around the
\* ends of the palettes
ProbeLedValues == -1..6
LedArgs ==
    {[none |-> TRUE, value |-> 0]}
    \cup {[none |-> FALSE, value |-> v] : v \in ProbeLedValues}

\* Interface lists of configuration 0 handed to DualShock4Device.__init__:
\* up to MaxInterfaces interfaces, each HID (0x03, 0x00), boot HID
\* (0x03, 0x01) or audio (0x01, 0x01), with an in endpoint or none
ProbeInterfaces ==
    {[class |-> c, hid_usage |-> <<>>, endpoints |-> e] :
        c \in {<<3, 0>>, <<3, 1>>, <<1, 1>>}, e \in {<<>>, <<InEp(64, 5)>>}}
InterfaceLists ==
    UNION {[1..n -> ProbeInterfaces] : n \in 0..MaxInterfaces}

\* Endpoint intervals handed to Device.__init__: the bInterval of the in and
\* of the out endpoint, 0 for an endpoint the interface does not have (one
\* at least exists), and the speed of the device
IntervalArgs ==
    {[inival |-> i, outival |-> o, speed_high |-> h] :
        i \in 0..MaxRawInterval, o \in 0..MaxRawInterval, h \in BOOLEAN} \
    {[inival |-> 0, outival |-> 0, speed_high |-> h] : h \in BOOLEAN}

\* Mutator calls on a State object: the attribute written and the integers
\* handed over (y only for a joystick); the values lie at and beyond both
\* ends of each range, among them what the decoders hand over (a throttle
\* byte << 1, an int8 << 10, an unpacked -32768)
StateCalls ==
    {[op |-> o, x |-> v, y |-> 0] :
        o \in {"trigger_threshold"}, v \in {-1, 0, 1, 255, 256}}
    \cup {[op |-> o, x |-> v, y |-> 0] :
            o \in {"joystick_threshold"}, v \in {-1, 0, 1, 32767, 32768}}
    \cup {[op |-> o, x |-> v, y |-> 0] :
            o \in {"joystick_deadzone"}, v \in {-1, 0, 32766, 32767}}
    \cup {[op |-> o, x |-> v, y |-> 0] :
            o \in {"left_trigger", "right_trigger"}, v \in {-1, 0, 255, 510}}
    \cup {[op |-> o, x |-> vx, y |-> vy] :
            o \in {"left_joystick", "right_joystick"},
            vx \in {-131072, -32768, 0, 32767}, vy \in {-32767, 0, 32768}}

\* The State after the call
StateCall(s, c) ==
    CASE c.op = "trigger_threshold" -> SetTriggerThreshold(s, c.x)
      [] c.op = "joystick_threshold" -> SetJoystickThreshold(s, c.x)
      [] c.op = "joystick_deadzone" -> SetJoystickDeadzone(s, c.x)
      [] c.op = "left_trigger" -> SetLeftTrigger(s, c.x)
      [] c.op = "right_trigger" -> SetRightTrigger(s, c.x)
      [] c.op = "left_joystick" -> SetLeftJoystick(s, c.x, c.y)
      [] OTHER -> SetRightJoystick(s, c.x, c.y)

\* The device types classification may hand to _create_device
CreateArgs ==
    {DEVICE_TYPE_SWITCH_PRO, DEVICE_TYPE_ADAFRUIT_SNES, DEVICE_TYPE_8BITDO_ZERO2,
     DEVICE_TYPE_XINPUT, DEVICE_TYPE_POWERA_WIRED, DEVICE_TYPE_PLAYSTATION_DS4,
     DEVICE_TYPE_HID_JOYSTICK}

Call(fn, arg) == [fn |-> fn, arg |-> arg, out |-> <<>>, done |-> FALSE]

InitUnits ==
    /\ gp = <<>>
    /\ connected = <<>>
    /\ failed = <<>>
    /\ last = NoCall
    /\ transport = [max_timeouts |-> 0, rich |-> FALSE, init_ticks |-> 0]
    /\ \/ probe \in {Call("_get_device_type", a) : a \in ClassifyArgs}
       \/ probe \in {Call("events", a) : a \in EventsArgs}
       \/ probe \in {Call(fn, a) : fn \in {"left_trigger", "right_trigger"},
                                   a \in TriggerArgs}
       \/ probe \in {Call("_apply_deadzone", a) : a \in DeadzoneArgs}
       \/ probe \in {Call("left_joystick", a) : a \in JoystickArgs}
       \/ probe \in {Call("right_joystick", a) : a \in RightJoystickArgs}
       \/ probe \in {Call("_update_state", a) : a \in UpdateStateArgs}
       \/ probe \in {[Call("ConfigurationDescriptor", a) EXCEPT !.out = ParserStart] :
                        a \in ParserArgs}
       \/ probe \in {[Call("SwitchProDevice", a) EXCEPT !.out = HandshakeStart(a)] :
                       a \in HandshakeArgs}
       \/ probe \in {[Call("DualShock4Device.led", a) EXCEPT !.out = DualShock4Start] :
                       a \in LedArgs}
       \/ probe \in {Call("SwitchProDevice.led", a) : a \in LedArgs}
       \/ probe \in {Call("DualShock4Device", a) : a \in InterfaceLists}
       \/ probe \in {Call("Device._interval", a) : a \in IntervalArgs}
       \/ probe = [Call("State", [op |-> "__init__", x |-> 0, y |-> 0, n |-> 0])
                     EXCEPT !.out = StateInit]
       \/ probe \in {Call("_create_device", a) : a \in CreateArgs}

\* A call returns out
Return(out) ==
    /\ probe' = [probe EXCEPT !.out = out, !.done = TRUE]
    /\ UNCHANGED <<gp, connected, failed, last, transport>>

\* _get_device_type(device, device_descriptor)
CallGetDeviceType ==
    /\ probe.fn = "_get_device_type" /\ ~probe.done
    /\ Return(Classify(probe.arg.id, probe.arg.class_identifier,
                       probe.arg.hid_usage))

\* gamepad.events, read any number of times
ReadEvents ==
    /\ probe.fn = "events"
    /\ Return(GamepadEvents(probe.arg))

\* state.left_trigger = value; out is the State object after the write
WriteLeftTrigger ==
    /\ probe.fn = "left_trigger" /\ ~probe.done
    /\ Return(SetLeftTrigger(probe.arg.state, probe.arg.value))

\* state.right_trigger = value
WriteRightTrigger ==
    /\ probe.fn = "right_trigger" /\ ~probe.done
    /\ Return(SetRightTrigger(probe.arg.state, probe.arg.value))

\* state._apply_deadzone(lo) and state._apply_deadzone(hi): out is the pair
\* of rescaled values
CallApplyDeadzone ==
    /\ probe.fn = "_apply_deadzone" /\ ~probe.done
    /\ Return(<<ApplyDeadzone(probe.arg.state, probe.arg.lo, FALSE)[2],
                ApplyDeadzone(probe.arg.state, probe.arg.hi, FALSE)[2]>>)

\* state.left_joystick = (x, y); out is the State object after the write
WriteLeftJoystick ==
    /\ probe.fn = "left_joystick" /\ ~probe.done
    /\ Return(SetLeftJoystick(probe.arg.state, probe.arg.x, probe.arg.y))

\* state.right_joystick = (x, y)
WriteRightJoystick ==
    /\ probe.fn = "right_joystick" /\ ~probe.done
    /\ Return(SetRightJoystick(probe.arg.state, probe.arg.x, probe.arg.y))

\* device._update_state(state) with the report in device._report; out is
\* the State object after the call
CallUpdateState ==
    /\ probe.fn = "_update_state" /\ ~probe.done
    /\ Return(UpdateState(probe.arg.cls, probe.arg.report, probe.arg.state))

\* ConfigurationDescriptor(device): one turn of its loop; the call has ended
\* when the status is no longer "parsing"
ParseIteration ==
    /\ probe.fn = "ConfigurationDescriptor" /\ probe.out.status = "parsing"
    /\ LET st == ParseStep(probe.arg.bytes, probe.out)
       IN probe' = [probe EXCEPT !.out = st, !.done = st.status # "parsing"]
    /\ UNCHANGED <<gp, connected, failed, last, transport>>

\* SwitchProDevice(device): one turn of the handshake loop; the constructor
\* has ended when the status is no longer "handshake"
HandshakeIteration ==
    /\ probe.fn = "SwitchProDevice" /\ probe.out.status = "handshake"
    /\ \E w \in DeviceWrite(probe.out.device) :
         LET h == HandshakeMessage(probe.out, w)
         IN probe' = [probe EXCEPT !.out = h, !.done = h.status # "handshake"]
    /\ UNCHANGED <<gp, connected, failed, last, transport>>

\* device.led = value on a DualShock4Device
WriteDualShock4Led ==
    /\ probe.fn = "DualShock4Device.led" /\ ~probe.done
    /\ Return(DualShock4SetLed(probe.out, probe.arg.none, probe.arg.value))

\* device.led = value on a SwitchProDevice
WriteSwitchProLed ==
    /\ probe.fn = "SwitchProDevice.led" /\ ~probe.done
    /\ Return(SwitchProSetLed(probe.arg.none, probe.arg.value))

\* DualShock4Device(device, device_descriptor): the interface bound, or the
\* exception raised (a USBError of the transport included)
CallDualShock4Device ==
    /\ probe.fn = "DualShock4Device" /\ ~probe.done
    /\ \E r \in {DualShock4Bind(probe.arg)}
              \cup IF DualShock4Bind(probe.arg).status = "bound"
                   THEN {[DualShock4Bind(probe.arg) EXCEPT !.status = "USBError"]}
                   ELSE {} :
         Return(r)

\* The poll interval Device.__init__ computes
CallPollInterval ==
    /\ probe.fn = "Device._interval" /\ ~probe.done
    /\ Return(PollInterval(Max(probe.arg.inival, probe.arg.outival),
                           probe.arg.speed_high))

\* One more mutator call on the State object; arg keeps the call and how
\* many were made
CallStateMutator ==
    /\ probe.fn = "State" /\ probe.arg.n < MaxCalls
    /\ \E c \in StateCalls :
         probe' = [probe EXCEPT
                     !.arg = [op |-> c.op, x |-> c.x, y |-> c.y, n |-> probe.arg.n + 1],
                     !.out = StateCall(probe.out, c),
                     !.done = TRUE]
    /\ UNCHANGED <<gp, connected, failed, last, transport>>

\* _create_device(device, device_type) whose constructor succeeds: the class
\* of the object returned and what its device_type property reports
CallCreateDevice ==
    /\ probe.fn = "_create_device" /\ ~probe.done
    /\ Return([cls |-> DecoderClass(probe.arg),
               device_type |-> ClassDeviceType(DecoderClass(probe.arg))])

NextUnits ==
    \/ CallGetDeviceType
    \/ ReadEvents
    \/ WriteLeftTrigger
    \/ WriteRightTrigger
    \/ CallApplyDeadzone
    \/ WriteLeftJoystick
    \/ WriteRightJoystick
    \/ CallUpdateState
    \/ ParseIteration
    \/ HandshakeIteration
    \/ WriteDualShock4Led
    \/ WriteSwitchProLed
    \/ CallDualShock4Device
    \/ CallPollInterval
    \/ CallStateMutator
    \/ CallCreateDevice

SpecUnits == InitUnits /\ [][NextUnits]_vars

\* ------------------------------------------------------------ properties
\* The pressed bits of gamepad g
Pressed(g) == gp[g].state.buttons.pressed

\* The changed bits of gamepad g
Changed(g) == gp[g].state.buttons.changed

\* A step is an update() call of gamepad g
IsUpdate(g) == last'.op = "update" /\ last'.g = g

\* C1: after every update() call, whatever the call did, a button's changed
\* bit is set exactly when its pressed bit differs from the value it had
\* immediately before that call.
C1_ChangedIffDiffers ==
    [][\A g \in DOMAIN gp : IsUpdate(g) =>
          \A i \in ButtonIds :
              (i \in Changed(g)') <=> ((i \in Pressed(g)') # (i \in Pressed(g)))]_vars

\* A step is an update() call of gamepad g whose polling read delivered a
\* non-empty report
ReadsReport(g) == IsUpdate(g) /\ last'.read.kind = "data" /\ last'.read.data # <<>>

\* The report read in this step has the same bytes as the previous report
\* of gamepad g's device (over the bytes that were read)
SameAsPrevious(g) ==
    \A i \in 1..Len(last'.read.data) :
        last'.read.data[i] = gp'[g].device.report[i]
        /\ gp'[g].device.report[i] = (IF gp[g].device.handle # 0
                                      THEN gp[g].device.previous_report[i] ELSE 0)

\* C2: a non-empty report with the same bytes as the previous report is
\* debounced: update() returns false, no changed bit is set and the decoder
\* is not invoked (the state is the one before the call with the changes
\* cleared, the previous report stays); a non-empty report that differs is
\* decoded: update() returns true and the previous report becomes a copy of
\* the report buffer, which holds the bytes read.
C2_Debounce ==
    [][\A g \in DOMAIN gp : ReadsReport(g) =>
          IF SameAsPrevious(g)
          THEN /\ last'.ret = FALSE
               /\ Changed(g)' = {}
               /\ gp'[g].state = [gp[g].state EXCEPT !.buttons.changed = {}]
               /\ gp[g].device.handle # 0 =>
                      gp'[g].device.previous_report = gp[g].device.previous_report
          ELSE /\ last'.ret = TRUE
               /\ gp'[g].device.previous_report = gp'[g].device.report
               /\ \A i \in 1..Len(last'.read.data) :
                      gp'[g].device.previous_report[i] = last'.read.data[i]]_vars

\* C2 witness: a non-empty report was debounced while a button is held
C2_Witness ==
    /\ last.op = "update" /\ last.outcome = "same"
    /\ last.read.data # <<>>
    /\ Pressed(last.g) # {}
    /\ last.ret = FALSE

\* The latest call was an update() that decoded a non-empty report
Decoded ==
    /\ last.outcome = "decoded"
    /\ last.read.kind = "data" /\ last.read.data # <<>>

\* The latest call was an update() whose timeout or error handler
\* disconnected the device it polled
HandlerDisconnected ==
    /\ last.disconnected
    /\ last.read.kind \in {"USBTimeoutError", "USBError"}
    /\ last.polled # 0 /\ gp[last.g].device.handle = 0

\* C3 as stated: update() returns true only when it read a non-empty report
\* that differed from the previous one and decoded it; in every other
\* outcome (no device, throttled, empty, debounced, timeout, transport
\* error, disconnect) it returns false.
C3_TrueOnlyWhenDecoded ==
    last.op = "update" /\ last.exc = "none" => (last.ret = TRUE <=> Decoded)

\* C3: update() returns true exactly in a call that decoded a differing
\* non-empty report or whose timeout or error handler disconnected the
\* device; it returns false when no device is bound, the poll interval has
\* not elapsed, the report is empty or identical, or a timeout stays below
\* the ceiling.
C3_TrueWhenDecodedOrDisconnected ==
    last.op = "update" /\ last.exc = "none" =>
        /\ last.ret = TRUE <=> (Decoded \/ HandlerDisconnected)
        /\ last.outcome \in {"nodevice", "throttled", "empty", "same"} =>
               last.ret = FALSE
        /\ last.outcome = "timeout" /\ ~last.disconnected => last.ret = FALSE

\* C3 witness: the timeout that exceeded the ceiling disconnected the
\* device and update() returned true
C3_Witness ==
    /\ last.op = "update" /\ last.ret = TRUE
    /\ last.read.kind = "USBTimeoutError"
    /\ HandlerDisconnected

\* A step is an update() call of gamepad g whose polling read timed out
TimesOut(g) == IsUpdate(g) /\ last'.read.kind = "USBTimeoutError"

\* A step is an update() call of gamepad g whose polling read completed
\* (it returned a packet size instead of raising)
ReadCompletes(g) == IsUpdate(g) /\ last'.outcome \in {"empty", "same", "decoded"}

\* The timeouts counted in _timeouts of gamepad g form one uninterrupted run
\* of timed-out reads of the bound device
OneRun(g) == ~gp[g].mixed

\* C4: a bound device whose polling reads time out in an uninterrupted run
\* is disconnected exactly at the 100th timeout of that run: a timeout
\* disconnects only as the 100th of its run, and after 99 or fewer the
\* device is still bound.
C4_TimeoutCeiling ==
    [][\A g \in DOMAIN gp : TimesOut(g) =>
          IF last'.disconnected
          THEN /\ OneRun(g) /\ gp[g].timeouts + 1 = MAX_TIMEOUTS + 1
               /\ gp'[g].device.handle = 0
          ELSE /\ gp'[g].device.handle = last'.polled
               /\ gp'[g].timeouts <= MAX_TIMEOUTS]_vars

\* C5: the timeout counter counts consecutive timeouts: a polling read that
\* completes restarts the count, so a device is disconnected for timeouts
\* only when more than 99 reads in a row have timed out.
C5_ConsecutiveTimeouts ==
    [][\A g \in DOMAIN gp :
          /\ ReadCompletes(g) => gp'[g].timeouts = 0
          /\ TimesOut(g) /\ last'.disconnected => OneRun(g)]_vars

\* The registries hold nothing that keeps gamepad g's search from examining
\* enumerated device d
Searchable(g, d) == ~Excluded(gp[g].port, DeviceId(d), connected, failed)

\* C6: a non-timeout transport error raised by a polling read disconnects
\* the bound device within that same update() call, whatever the timeout
\* count is, and does not add the device's id to the failed registry: the
\* device is left searchable.
C6_TransportErrorDisconnects ==
    \A g \in DOMAIN gp :
        last.op = "update" /\ last.g = g /\ last.read.kind = "USBError" =>
            /\ last.polled # 0
            /\ last.disconnected
            /\ gp[g].device.handle = 0 /\ gp[g].device_id = <<>>
            /\ \A i \in 1..Len(failed) : failed[i] # DeviceId(last.polled)
            /\ Searchable(g, last.polled)

\* C6 witness: an update() of a device bound by an earlier call ended in a
\* disconnect on USBError
C6_Witness ==
    /\ last.op = "update" /\ last.read.kind = "USBError"
    /\ ~last.searched /\ last.polled # 0
    /\ gp[last.g].device.handle = 0

\* C7: no exception ever reaches the caller of update().
C7_NoException ==
    last.op = "update" => last.exc = "none"

\* The id is in the failed registry
InFailed(id) == \E i \in 1..Len(failed) : failed[i] = id

\* The candidates a step's search examined (descriptor fetch attempted)
Examined == { last'.log[j].d : j \in 1..Len(last'.log) }

\* C8: quarantine is permanent and global: an id is never removed from the
\* failed registry, and no Gamepad's search examines a device whose id the
\* registry holds, be it from an earlier call of any Gamepad or from the
\* same call.
C8_QuarantinePermanent ==
    [][/\ Len(failed') >= Len(failed)
       /\ SubSeq(failed', 1, Len(failed)) = failed
       /\ \A d \in Examined : ~InFailed(DeviceId(d))
       /\ \A i, j \in 1..Len(last'.log) :
              i < j /\ last'.log[i].verdict \in QuarantineVerdicts =>
                  DeviceId(last'.log[i].d) # DeviceId(last'.log[j].d)]_vars

\* C8 witness: with every device of the bus quarantined, a search ran to
\* the end of the enumeration and examined nothing
C8_Witness ==
    /\ last.op = "update" /\ last.searched /\ last.ended
    /\ last.log = <<>>
    /\ Len(failed) = Len(World)
    /\ \A g \in DOMAIN gp : gp[g].device.handle = 0

\* C9: every candidate that a search examined and did not bind (descriptor
\* read failure, Unknown classification, initialization failure including
\* any transport failure) has its id in the failed registry when the call
\* is over, and the gamepad is not bound to it.
C9_FailingCandidateQuarantined ==
    last.op = "update" =>
        \A j \in 1..Len(last.log) :
            last.log[j].verdict # "bound" =>
                /\ InFailed(DeviceId(last.log[j].d))
                /\ gp[last.g].device.handle # last.log[j].d

\* C10 as stated: a single update() call examines at most one candidate.
C10_OneAttemptPerCall ==
    last.op = "update" => Len(last.log) <= 1

\* C10: a search walks the enumeration in order within one update() call:
\* every candidate examined before the last one was quarantined, and a
\* search that quarantined its last candidate (or examined none) went on to
\* the end of the enumeration; it examines nothing after binding a
\* candidate, so one call binds at most one device.
C10_SearchContinues ==
    last.op = "update" /\ last.searched =>
        LET n == Len(last.log)
        IN /\ \A j \in 1..(n - 1) :
                  /\ last.log[j].verdict \in QuarantineVerdicts
                  /\ last.log[j].d < last.log[j + 1].d
           /\ (n = 0 \/ last.log[n].verdict \in QuarantineVerdicts) => last.ended
           /\ \A j \in 1..n : last.log[j].verdict \in QuarantineVerdicts =>
                  InFailed(DeviceId(last.log[j].d))

\* C10 witness: one call quarantined a candidate whose handshake failed and
\* then bound the next one
C10_Witness ==
    /\ last.op = "update" /\ Len(last.log) = 2
    /\ last.log[1].verdict = "init"
    /\ last.log[2].verdict = "bound"
    /\ InFailed(DeviceId(last.log[1].d))
    /\ gp[last.g].device.handle = last.log[2].d

\* A step is a disconnect() call of the application on gamepad g
IsDisconnect(g) == last'.op = "disconnect" /\ last'.g = g

\* The entry of gamepad g's binding in the claimed registry
Claim(g) == <<gp[g].port>> \o gp[g].device_id

\* The entry is in the claimed registry
InConnected(entry) == \E i \in 1..Len(connected) : connected[i] = entry

\* The state holds no pressed button and zero analog values
Idle(st) ==
    /\ st.buttons.pressed = {}
    /\ st.left_trigger = 0 /\ st.right_trigger = 0
    /\ st.left_joystick_x = 0 /\ st.left_joystick_y = 0
    /\ st.right_joystick_x = 0 /\ st.right_joystick_y = 0

C12_DisconnectIdempotent ==
    [][\A g \in DOMAIN gp : IsDisconnect(g) /\ gp[g].device.handle = 0 =>
          /\ last'.ret = FALSE
          /\ connected' = connected
          /\ failed' = failed
          /\ gp' = gp]_vars

\* C12 witness: a disconnect() on an unbound Gamepad returned false while
\* both registries hold entries
C12_Witness ==
    /\ last.op = "disconnect" /\ last.ret = FALSE
    /\ gp[last.g].device.handle = 0
    /\ connected # <<>> /\ failed # <<>>

\* A step is an update() call of gamepad g that enumerated the devices
Enumerates(g) == IsUpdate(g) /\ last'.searched

\* C13: a Gamepad enumerates the transport's devices only while it has no
\* bound device, and two enumerations by the same Gamepad are at least the
\* search delay apart, however often update() is called.
C13_SearchRateLimit ==
    [][\A g \in DOMAIN gp : Enumerates(g) =>
          /\ gp[g].device.handle = 0
          /\ gp[g].since_search >= SEARCH_DELAY * TicksPerSecond]_vars

\* An update() call of gamepad g went as far as a polling read attempt
AttemptsRead(g) ==
    /\ IsUpdate(g)
    /\ last'.outcome \in {"empty", "same", "decoded", "timeout", "error"}

\* Less than the poll interval has passed since the latest read attempt on
\* the device bound to gamepad record p
WithinInterval(p) ==
    p.device.since_read * 1000 < p.device.interval * TicksPerSecond

\* C14: while a device is bound, an update() call made less than the poll
\* interval after the previous polling read attempt returns false without
\* issuing a transport read; two polling reads of one device are never
\* closer together than its interval.
C14_PollThrottle ==
    [][\A g \in DOMAIN gp : gp[g].device.handle # 0 =>
          /\ IsUpdate(g) /\ WithinInterval(gp[g]) =>
                /\ last'.ret = FALSE
                /\ last'.read = NoRead
                /\ last'.outcome = "throttled"
                /\ gp'[g].device = gp[g].device
          /\ AttemptsRead(g) => ~WithinInterval(gp[g])]_vars

\* An update() call on a device that was read during the previous call, with
\* no time elapsed, has been throttled
C14_Witness ==
    /\ last.op = "update" /\ last.outcome = "throttled" /\ ~last.searched
    /\ ~last.ret /\ last.read = NoRead
    /\ gp[last.g].device.handle # 0
    /\ gp[last.g].device.since_read = 0
    /\ gp[last.g].device.interval > 0

\* Gamepad g, constructed with a physical port, has bound a device that is
\* located on that port
OnRequestedPort(g) ==
    LET path == World[gp[g].device.handle].port_numbers
    IN /\ path # <<>> => path = <<gp[g].port>>
       /\ path = <<>> => gp[g].port = 1

\* C15: a Gamepad constructed with a physical port p never binds a device
\* whose port path is known and differs from (p,), and when p is not 1 it
\* never binds a device that reports no port path.
C15_PortBinding ==
    \A g \in DOMAIN gp :
        gp[g].port # 0 /\ gp[g].device.handle # 0 => OnRequestedPort(g)

\* A port-1 gamepad holds the device without a port path and a port-2
\* gamepad holds the device on hub port 2, each having skipped the other's
C15_Witness ==
    \E g, h \in DOMAIN gp :
        /\ gp[g].port = 1 /\ gp[g].device.handle # 0
        /\ World[gp[g].device.handle].port_numbers = <<>>
        /\ gp[h].port = 2 /\ gp[h].device.handle # 0
        /\ World[gp[h].device.handle].port_numbers = <<2>>

\* The gamepads that currently have a bound device
Bound == {g \in DOMAIN gp : gp[g].device.handle # 0}

\* How often an entry occurs in the claimed registry
Occurrences(entry) ==
    Cardinality({i \in 1..Len(connected) : connected[i] = entry})

\* C16: between operations the claimed registry holds the entry
\* (port, vendor, product) exactly once for every Gamepad that has a bound
\* device, port being that Gamepad's requested port, and no other entry.
C16_ClaimedRegistryConsistent ==
    /\ \A g \in Bound : Occurrences(Claim(g)) = 1
    /\ \A i \in 1..Len(connected) : \E g \in Bound : connected[i] = Claim(g)
    /\ Len(connected) = Cardinality(Bound)

\* Two gamepads constructed with the same port hold different devices, after
\* a disconnect() released a claim and a later search took one again
C16_Witness ==
    /\ \E g, h \in Bound : g # h /\ gp[g].port = gp[h].port
    /\ Len(connected) = 2
    /\ connected[1][2] = World[2].idVendor
    /\ connected[2][2] = World[1].idVendor

\* The rows of a table whose key columns equal key
Rows(table, key) ==
    {i \in 1..Len(table) : SubSeq(table[i], 2, Len(table[i])) = key}

\* The tiers of the classification that match a device
MatchesId(a) == Rows(DEVICE_TYPES, a.id) # {}
MatchesUsage(a) ==
    /\ a.class_identifier[3] = INTERFACE_HID
    /\ Rows(DEVICE_HID_USAGES, a.hid_usage) # {}
MatchesClass(a) == Rows(DEVICE_CLASSES, a.class_identifier) # {}

\* _get_device_type has returned
Classified == probe.fn = "_get_device_type" /\ probe.done

\* C17: classification returns the family of the first matching tier in
\* the order id table, HID usage of the first interface, class table, and
\* Unknown when none matches; identity (0x057E, 0x2009) gives SwitchPro for
\* every descriptor and a non-table identity with class tuple
\* (0xFF, 0xFF, 0xFF, 0x5D) gives XInput.
C17_ClassificationTiers ==
    Classified =>
        LET a == probe.arg
        IN /\ MatchesId(a) =>
                 \E i \in Rows(DEVICE_TYPES, a.id) : probe.out = DEVICE_TYPES[i][1]
           /\ ~MatchesId(a) /\ MatchesUsage(a) =>
                 \E i \in Rows(DEVICE_HID_USAGES, a.hid_usage) :
                     probe.out = DEVICE_HID_USAGES[i][1]
           /\ ~MatchesId(a) /\ ~MatchesUsage(a) /\ MatchesClass(a) =>
                 \E i \in Rows(DEVICE_CLASSES, a.class_identifier) :
                     probe.out = DEVICE_CLASSES[i][1]
           /\ ~MatchesId(a) /\ ~MatchesUsage(a) /\ ~MatchesClass(a) =>
                 probe.out = DEVICE_TYPE_UNKNOWN
           /\ a.id = <<1406, 8201>> => probe.out = DEVICE_TYPE_SWITCH_PRO
           /\ ~MatchesId(a) /\ a.class_identifier = <<255, 255, 255, 93>> =>
                 probe.out = DEVICE_TYPE_XINPUT

\* A Switch Pro identity with the XInput class tuple has been classified as
\* SwitchPro: the id tier decided before the class tier was consulted
C17_Witness ==
    /\ Classified
    /\ probe.arg.id = <<1406, 8201>>
    /\ probe.arg.class_identifier = <<255, 255, 255, 93>>
    /\ probe.out = DEVICE_TYPE_SWITCH_PRO

\* C18: the Gamepad device_type accessor returns the family tag of the bound
\* device (its DEVICE_TYPE_* value) while a device is connected, and
\* Unknown (0) while none is connected.
C18_DeviceTypeAccessor ==
    \A g \in DOMAIN gp :
        GamepadDeviceType(gp[g]) =
            IF GamepadConnected(gp[g]) THEN PyInt(gp[g].device.device_type)
            ELSE PyInt(DEVICE_TYPE_UNKNOWN)

\* A step reads gamepad.events
IsReadEvents == probe.fn = "events" /\ probe'.done

\* The key numbers of a sequence of events are strictly ascending
Ascending(events) ==
    \A i, j \in 1..Len(events) : i < j => events[i].key_number < events[j].key_number

\* C19: events returns one record per button whose changed bit is set, in
\* ascending button-index order, each carrying the button's current pressed
\* value; reading it has no side effect, so a second read with no update()
\* in between returns the same sequence.
C19_Events ==
    [][IsReadEvents =>
          LET b == probe.arg.state.buttons
              out == probe'.out
          IN /\ {out[k].key_number : k \in 1..Len(out)} = b.changed
             /\ Len(out) = Cardinality(b.changed)
             /\ Ascending(out)
             /\ \A k \in 1..Len(out) :
                    out[k].pressed = (out[k].key_number \in b.pressed)
             /\ probe'.arg = probe.arg
             /\ probe.done => probe'.out = probe.out]_vars

\* events has reported a press and a release, by ascending key number, with
\* an unchanged pressed button left out
C19_Witness ==
    /\ probe.fn = "events" /\ probe.done
    /\ probe.out = <<Event(BUTTON_A, TRUE), Event(BUTTON_TOUCH_PAD, FALSE)>>
    /\ BUTTON_L2 \in probe.arg.state.buttons.pressed

\* v clamped to 0..255
Clamped(v) == IF v < 0 THEN 0 ELSE IF v > 255 THEN 255 ELSE v

\* C20: for every integer input v the stored trigger value is v clamped to
\* 0..255 and, immediately after the write, the matching digital button (L2
\* for the left trigger, R2 for the right) is pressed if and only if the
\* stored value is greater than or equal to the stored trigger threshold.
C20_TriggerWrite ==
    /\ probe.fn = "left_trigger" /\ probe.done =>
          /\ probe.out.left_trigger = Clamped(probe.arg.value)
          /\ BUTTON_L2 \in probe.out.buttons.pressed
                <=> probe.out.left_trigger >= probe.out.trigger_threshold
          /\ probe.out.trigger_threshold = probe.arg.state.trigger_threshold
    /\ probe.fn = "right_trigger" /\ probe.done =>
          /\ probe.out.right_trigger = Clamped(probe.arg.value)
          /\ BUTTON_R2 \in probe.out.buttons.pressed
                <=> probe.out.right_trigger >= probe.out.trigger_threshold
          /\ probe.out.trigger_threshold = probe.arg.state.trigger_threshold

\* A released left trigger was written with exactly the threshold and L2 is
\* pressed
C20_Witness ==
    /\ probe.fn = "left_trigger" /\ probe.done
    /\ probe.arg.value = probe.arg.state.trigger_threshold
    /\ probe.arg.state.left_trigger = 0
    /\ probe.out.left_trigger = 127
    /\ BUTTON_L2 \in probe.out.buttons.pressed
    /\ BUTTON_L2 \in probe.out.buttons.changed

\* y is the rescaled value the claim allows for axis input x and deadzone d
DeadzoneValueOk(d, x, y) ==
    /\ -d <= x /\ x <= d => y = 0
    /\ x > d => y > 0
    /\ x < -d => y < 0
    /\ x >= 32767 => y = 32767
    /\ x <= -32767 => y = -32767

\* C21: for every configured deadzone d and every integer axis input x the
\* rescaled value is 0 whenever |x| <= d, is non-decreasing in x, has the
\* sign of x when |x| > d, and is +32767 at x = 32767 and -32767 at
\* x = -32767, inputs beyond the extremes giving the extreme.
C21_Deadzone ==
    probe.fn = "_apply_deadzone" /\ probe.done =>
        LET d == probe.arg.state.joystick_deadzone
        IN /\ DeadzoneValueOk(d, probe.arg.lo, probe.out[1])
           /\ DeadzoneValueOk(d, probe.arg.hi, probe.out[2])
           /\ probe.out[1] <= probe.out[2]

\* With the default deadzone, the boundary value is rescaled to 0 and its
\* successor to a positive value
C21_Witness ==
    /\ probe.fn = "_apply_deadzone" /\ probe.done
    /\ probe.arg.state.joystick_deadzone = DEFAULT_JOYSTICK_DEADZONE
    /\ probe.arg.lo = DEFAULT_JOYSTICK_DEADZONE
    /\ probe.arg.hi = DEFAULT_JOYSTICK_DEADZONE + 1
    /\ probe.out[1] = 0 /\ probe.out[2] = 1

\* The left joystick has been written
LeftJoystickWritten == probe.fn = "left_joystick" /\ probe.done

\* Button index is pressed in the State object the call returned
PressedAfter(index) == index \in probe.out.buttons.pressed

\* The four directional pseudo-buttons are decided by the values x and y
DirectionsDecidedBy(x, y) ==
    LET t == probe.out.joystick_threshold
    IN /\ PressedAfter(BUTTON_JOYSTICK_RIGHT) <=> x >= t
       /\ PressedAfter(BUTTON_JOYSTICK_LEFT) <=> x <= -t
       /\ PressedAfter(BUTTON_JOYSTICK_UP) <=> y >= t
       /\ PressedAfter(BUTTON_JOYSTICK_DOWN) <=> y <= -t

\* C22 (as stated): on a left-joystick write each directional pseudo-button
\* is decided by the deadzone-rescaled axis value: RIGHT / UP is pressed iff
\* the rescaled x / y is >= the joystick threshold, LEFT / DOWN iff it is
\* <= minus the threshold.
C22_DirectionsByRescaled ==
    LeftJoystickWritten =>
        DirectionsDecidedBy(probe.out.left_joystick_x, probe.out.left_joystick_y)

\* The written axis value after inversion and clamping to -32767..32767
AxisRaw(v, invert) ==
    LET w == IF invert THEN -v ELSE v
    IN IF w > 32767 THEN 32767 ELSE IF w < -32767 THEN -32767 ELSE w

\* C22 (amended): each directional pseudo-button is decided by the written
\* axis value after inversion and clamping, before the deadzone rescaling;
\* the rescaled value is what the axis stores.
C22_DirectionsByRaw ==
    LeftJoystickWritten =>
        LET s == probe.arg.state
        IN /\ DirectionsDecidedBy(AxisRaw(probe.arg.x, s.left_joystick_invert_x),
                                  AxisRaw(probe.arg.y, s.left_joystick_invert_y))
           /\ probe.out.left_joystick_x =
                 ApplyDeadzone(s, probe.arg.x, s.left_joystick_invert_x)[2]
           /\ probe.out.left_joystick_y =
                 ApplyDeadzone(s, probe.arg.y, s.left_joystick_invert_y)[2]

\* The threshold itself was written with the default deadzone: RIGHT is
\* pressed although the stored, rescaled x is below the threshold
C22_Witness ==
    /\ LeftJoystickWritten
    /\ probe.arg.state.joystick_deadzone = DEFAULT_JOYSTICK_DEADZONE
    /\ ~probe.arg.state.left_joystick_invert_x
    /\ probe.arg.x = probe.arg.state.joystick_threshold
    /\ PressedAfter(BUTTON_JOYSTICK_RIGHT)
    /\ probe.out.left_joystick_x > 0
    /\ probe.out.left_joystick_x < probe.out.joystick_threshold

\* Writing v to an axis presses the button of its positive direction at the
\* threshold and of its negative direction at minus the threshold, and
\* neither one unit nearer to zero
EdgeAt(v, positive, negative) ==
    LET t == probe.arg.state.joystick_threshold
    IN /\ v = t => PressedAfter(positive)
       /\ v = t - 1 => ~PressedAfter(positive)
       /\ v = -t => PressedAfter(negative)
       /\ v = -(t - 1) => ~PressedAfter(negative)

\* C23: for every joystick threshold t and every deadzone, writing a
\* left-joystick axis value equal to t presses the corresponding directional
\* pseudo-button in that same write and writing t - 1 leaves it released;
\* symmetrically -t presses the opposite direction and -(t - 1) does not.
C23_ThresholdEdge ==
    LeftJoystickWritten /\ ~probe.arg.state.left_joystick_invert_x =>
        /\ EdgeAt(probe.arg.x, BUTTON_JOYSTICK_RIGHT, BUTTON_JOYSTICK_LEFT)
        /\ EdgeAt(probe.arg.y, BUTTON_JOYSTICK_UP, BUTTON_JOYSTICK_DOWN)

\* The threshold was written to x and minus the threshold to y while both lie
\* inside the deadzone: RIGHT and DOWN are pressed in that write and the
\* stored axes are 0
C23_Witness ==
    /\ LeftJoystickWritten /\ ~probe.arg.state.left_joystick_invert_x
    /\ probe.arg.state.joystick_deadzone > probe.arg.state.joystick_threshold
    /\ probe.arg.x = probe.arg.state.joystick_threshold
    /\ probe.arg.y = -probe.arg.state.joystick_threshold
    /\ {BUTTON_JOYSTICK_RIGHT, BUTTON_JOYSTICK_DOWN} = probe.out.buttons.pressed
    /\ {BUTTON_JOYSTICK_RIGHT, BUTTON_JOYSTICK_DOWN} = probe.out.buttons.changed
    /\ probe.out.left_joystick_x = 0 /\ probe.out.left_joystick_y = 0

\* The right joystick has been written
RightJoystickWritten == probe.fn = "right_joystick" /\ probe.done

\* C24: a right-joystick write changes only the two right-joystick axis
\* values; every button's pressed and changed bit, both triggers and the
\* left joystick stay as they were, for every input value.
C24_RightJoystickFrame ==
    RightJoystickWritten =>
        /\ DOMAIN probe.out = DOMAIN probe.arg.state
        /\ \A f \in DOMAIN probe.out \ {"right_joystick_x", "right_joystick_y"} :
               probe.out[f] = probe.arg.state[f]

\* A right-joystick write past the threshold in both axes moved both right
\* axes and left the pressed and changed buttons alone, JOYSTICK_UP and
\* JOYSTICK_LEFT still released
C24_Witness ==
    /\ RightJoystickWritten
    /\ probe.arg.x >= probe.arg.state.joystick_threshold
    /\ probe.arg.y >= probe.arg.state.joystick_threshold
    /\ ~probe.arg.state.right_joystick_invert_x
    /\ probe.out.right_joystick_x > 0 /\ probe.out.right_joystick_y > 0
    /\ probe.arg.state.right_joystick_x = 0
    /\ BUTTON_A \in probe.out.buttons.changed
    /\ BUTTON_JOYSTICK_UP \notin probe.out.buttons.pressed
    /\ BUTTON_JOYSTICK_LEFT \notin probe.out.buttons.pressed
    /\ probe.out.left_trigger = 200

\* A report of decoder class cls has been decoded
DecodedBy(cls) ==
    probe.fn = "_update_state" /\ probe.done /\ probe.arg.cls = cls

\* Bit k (0 = least significant) of byte i of the decoded report
ReportBit(i, k) == (probe.arg.report[i + 1] \div (2 ^ k)) % 2 = 1

\* The XInput button layout of the claim: <<button, byte, bit>>
XInputLayout ==
    {<<BUTTON_UP, 2, 0>>, <<BUTTON_DOWN, 2, 1>>, <<BUTTON_LEFT, 2, 2>>,
     <<BUTTON_RIGHT, 2, 3>>, <<BUTTON_START, 2, 4>>, <<BUTTON_SELECT, 2, 5>>,
     <<BUTTON_L1, 3, 0>>, <<BUTTON_R1, 3, 1>>, <<BUTTON_HOME, 3, 2>>,
     <<BUTTON_B, 3, 4>>, <<BUTTON_A, 3, 5>>, <<BUTTON_Y, 3, 6>>,
     <<BUTTON_X, 3, 7>>}

\* C25: XInput decode: UP, DOWN, LEFT, RIGHT, START, SELECT equal bits 0x01,
\* 0x02, 0x04, 0x08, 0x10, 0x20 of byte 2; L1, R1, HOME, B, A, Y, X equal
\* bits 0x01, 0x02, 0x04, 0x10, 0x20, 0x40, 0x80 of byte 3; the raw left and
\* right trigger values equal bytes 4 and 5.
C25_XInputDecode ==
    DecodedBy("XInputDevice") =>
        /\ \A e \in XInputLayout : PressedAfter(e[1]) <=> ReportBit(e[2], e[3])
        /\ probe.out.left_trigger = probe.arg.report[5]
        /\ probe.out.right_trigger = probe.arg.report[6]

\* The report [_, _, 0x01, 0x20, 0x80, 0x00, 0 x 8] was decoded into a fresh
\* State: UP and A pressed, left trigger 128 (with L2), right trigger 0
C25_Witness ==
    /\ DecodedBy("XInputDevice")
    /\ probe.arg.state = StateInit
    /\ SubSeq(probe.arg.report, 3, 14) = <<1, 32, 128, 0>> \o Zeros(8)
    /\ probe.out.buttons.pressed = {BUTTON_UP, BUTTON_A, BUTTON_L2}
    /\ probe.out.left_trigger = 128
    /\ probe.out.right_trigger = 0

\* The parse of a configuration descriptor has ended
ParseEnded == probe.fn = "ConfigurationDescriptor" /\ probe.out.status # "parsing"

\* The positions of the records of one kind in the parsed stream
Positions(kind) ==
    {p \in 1..Len(probe.arg.kinds) : probe.arg.kinds[p] = kind}

\* The endpoint records between the interface record at position p and the
\* next interface record
EndpointsOf(p) ==
    {q \in Positions("E") :
        q > p /\ \A r \in Positions("I") : r > p => q < r}

\* The values of a sequence are strictly ascending
StrictlyAscending(seq) == \A i, j \in 1..Len(seq) : i < j => seq[i] < seq[j]

\* C26: parsing a well-formed configuration byte sequence with N interface
\* records and M endpoint records yields exactly N interface entries in
\* stream order, each endpoint record attached, in stream order, to the most
\* recent interface record preceding it, an endpoint record before any
\* interface record being attached to none.
C26_DescriptorParse ==
    ParseEnded /\ probe.arg.tail = "none" =>
        LET itf == probe.out.interface
            number == [k \in 1..Len(itf) |-> itf[k].index]
            address(k) == [e \in 1..Len(itf[k].endpoint) |->
                              itf[k].endpoint[e].address - 128]
        IN /\ probe.out.status = "done"
           /\ Len(itf) = Cardinality(Positions("I"))
           /\ {number[k] : k \in 1..Len(itf)} = Positions("I")
           /\ StrictlyAscending(number)
           /\ \A k \in 1..Len(itf) :
                 /\ StrictlyAscending(address(k))
                 /\ Len(address(k)) = Cardinality(EndpointsOf(number[k]))
                 /\ {address(k)[e] : e \in 1..Len(address(k))} =
                       EndpointsOf(number[k])

\* The stream endpoint, interface, endpoint, interface was parsed: two
\* interface entries, the first holding the second endpoint, the first
\* endpoint attached to none
C26_Witness ==
    /\ ParseEnded /\ probe.arg.tail = "none"
    /\ probe.arg.kinds = <<"E", "I", "E", "I">>
    /\ Len(probe.out.interface) = 2
    /\ Len(probe.out.interface[1].endpoint) = 1
    /\ probe.out.interface[1].endpoint[1].address = 128 + 3
    /\ probe.out.interface[2].endpoint = <<>>

\* C27: descriptor parsing fails with MalformedDescriptor (ValueError in the
\* code) for every byte sequence whose last record is truncated, its
\* declared length running past the end of the buffer, whatever the type
\* byte of that record is.
C27_TruncatedFails ==
    ParseEnded /\ probe.arg.tail = "truncated" =>
        probe.out.status = "ValueError"

\* C28: descriptor parsing terminates on every finite byte sequence: a
\* record whose length byte is 0 makes the parse fail with
\* MalformedDescriptor, for every type byte, instead of the scan staying at
\* the same offset forever.
C28_ZeroLengthFails ==
    probe.fn = "ConfigurationDescriptor" =>
        /\ probe.out.status # "hang"
        /\ ParseEnded /\ probe.arg.tail = "zero" =>
              probe.out.status = "ValueError"

\* ---------------------------------------------------------------- C29
\* The Switch Pro constructor in flight or ended
Handshaking == probe.fn = "SwitchProDevice"

\* C29: Switch Pro initialization hands its seven command packets to the
\* device in the fixed order; every packet but the last one sent has been
\* acknowledged by a read that returned, so packet k+1 is written only after
\* packet k was written and acknowledged; when a write times out or its
\* acknowledgement is not read the constructor raises ValueError, so there is
\* no device object to bind, and once the constructor has ended no further
\* packet is written; the constructor completes only with all seven
\* acknowledged.
C29_HandshakeOrder ==
    /\ [](Handshaking =>
            LET h == probe.out
                n == Len(h.sent)
            IN /\ n <= Len(SWITCH_PRO_HANDSHAKE)
               /\ h.sent = SubSeq(SWITCH_PRO_HANDSHAKE, 1, n)
               /\ n \in {h.acked, h.acked + 1}
               /\ n = h.acked + 1 => h.status \in {"ValueError", "USBError"}
               /\ h.how \in {"write timeout", "no acknowledgement"} =>
                    h.status = "ValueError"
               /\ h.status = "initialized" <=>
                    h.acked = Len(SWITCH_PRO_HANDSHAKE)
               /\ probe.done <=> h.status # "handshake")
    /\ [][Handshaking /\ probe.out.status # "handshake" =>
            probe'.out.sent = probe.out.sent]_vars

\* The handshake stopped at its fourth packet, three acknowledged before it
C29_Witness ==
    /\ Handshaking
    /\ probe.out.status = "ValueError"
    /\ probe.out.how = "no acknowledgement"
    /\ probe.out.acked = 3
    /\ probe.out.sent = SubSeq(SWITCH_PRO_HANDSHAKE, 1, 4)

\* ---------------------------------------------------------------- C30
\* A report of one of the three D-pad families was decoded
DpadFamilies == {"AdafruitSnesDevice", "Zero2Device", "PowerAWiredDevice"}
DpadDecoded == \E cls \in DpadFamilies : DecodedBy(cls)

\* The directions pressed after the decode
DirectionsAfter ==
    probe.out.buttons.pressed
        \cap {BUTTON_UP, BUTTON_RIGHT, BUTTON_DOWN, BUTTON_LEFT}

\* The directions the hat code stands for
HatDirections(code) ==
    (IF code \in {7, 0, 1} THEN {BUTTON_UP} ELSE {})
    \cup (IF code \in {1, 2, 3} THEN {BUTTON_RIGHT} ELSE {})
    \cup (IF code \in {3, 4, 5} THEN {BUTTON_DOWN} ELSE {})
    \cup (IF code \in {5, 6, 7} THEN {BUTTON_LEFT} ELSE {})

\* The directions the two axis bytes of an Adafruit SNES report stand for
AxisDirections(x, y) ==
    (IF x = 0 THEN {BUTTON_LEFT} ELSE {})
    \cup (IF x = 255 THEN {BUTTON_RIGHT} ELSE {})
    \cup (IF y = 0 THEN {BUTTON_UP} ELSE {})
    \cup (IF y = 255 THEN {BUTTON_DOWN} ELSE {})

\* Opposite directions are not pressed together
NoOpposites ==
    /\ ~({BUTTON_UP, BUTTON_DOWN} \subseteq DirectionsAfter)
    /\ ~({BUTTON_LEFT, BUTTON_RIGHT} \subseteq DirectionsAfter)

\* C30 as stated: hat D-pad decode: for each of the families AdafruitSnes,
\* EightBitDoZero2 and PowerAWired, decode sets UP iff the hat code is in
\* {7,0,1}, RIGHT iff in {1,2,3}, DOWN iff in {3,4,5}, LEFT iff in {5,6,7}.
\* The hat code is taken to be whichever byte of the report fits.
C30_HatDecode ==
    DpadDecoded =>
        \E i \in 1..Len(probe.arg.report) :
            DirectionsAfter = HatDirections(probe.arg.report[i])

\* C30: D-pad decode: the families EightBitDoZero2 and PowerAWired set UP iff
\* the hat code, byte 2 of the report, is in {7,0,1}, RIGHT iff in {1,2,3},
\* DOWN iff in {3,4,5}, LEFT iff in {5,6,7}, so a diagonal code presses two
\* adjacent directions and any other code releases all four; the family
\* AdafruitSnes has no hat: it sets LEFT iff byte 0 is 0x00, RIGHT iff byte 0
\* is 0xFF, UP iff byte 1 is 0x00 and DOWN iff byte 1 is 0xFF.  In all three
\* opposite directions are never pressed together.
C30_DpadDecode ==
    DpadDecoded =>
        /\ probe.arg.cls \in {"Zero2Device", "PowerAWiredDevice"} =>
             DirectionsAfter = HatDirections(probe.arg.report[3])
        /\ probe.arg.cls = "AdafruitSnesDevice" =>
             DirectionsAfter = AxisDirections(probe.arg.report[1],
                                              probe.arg.report[2])
        /\ NoOpposites

\* An 8BitDo Zero2 report with the diagonal hat code 3 was decoded into a State
\* that had every button pressed: of the directions RIGHT and DOWN remain
C30_Witness ==
    /\ DecodedBy("Zero2Device")
    /\ probe.arg.report[3] = 3
    /\ probe.arg.state.buttons.pressed = ButtonIds
    /\ DirectionsAfter = {BUTTON_RIGHT, BUTTON_DOWN}

\* ---------------------------------------------------------------- C31
\* C31: DualShock4 LED: for every LED index passed to the setter (None or any
\* integer), the setter stores an index that selects one of the five palette
\* colours, sets the colour to that palette entry and writes one control
\* report; it never fails with an out-of-range palette index.
C31_DualShock4Led ==
    probe.fn = "DualShock4Device.led" /\ probe.done =>
        /\ probe.out.exc = "none"
        /\ probe.out.led \in 0..(Len(DS4_COLORS) - 1)
        /\ probe.out.color = DS4_COLORS[probe.out.led + 1]
        /\ Len(probe.out.written) = 1

\* ---------------------------------------------------------------- C32
\* C32: SwitchPro LED: for every index passed to the setter, the stored LED
\* index is the input clamped to 0..4 (None counts as 0) and the message
\* written is the fixed 12-byte template with its last byte equal to
\* 2^led - 1 (the low led bits set, at most 4 bits).
C32_SwitchProLed ==
    probe.fn = "SwitchProDevice.led" /\ probe.done =>
        LET v == IF probe.arg.none THEN 0 ELSE probe.arg.value
            led == probe.out.led
        IN /\ led = (IF v < 0 THEN 0 ELSE IF v > 4 THEN 4 ELSE v)
           /\ Len(probe.out.msg) = 12
           /\ SubSeq(probe.out.msg, 1, 11) = <<1, 10, 0, 0, 0, 0, 0, 0, 0, 0, 48>>
           /\ probe.out.msg[12] = 2 ^ led - 1

\* The setter was handed 3: index 3 stored, last byte 0x07
C32_Witness ==
    /\ probe.fn = "SwitchProDevice.led" /\ probe.done
    /\ ~probe.arg.none /\ probe.arg.value = 3
    /\ probe.out.led = 3
    /\ probe.out.msg[12] = 7

\* ---------------------------------------------------------------- C33
\* The 0-based indices of the interfaces of class (0x03, 0x00)
HidInterfaces ==
    {i - 1 : i \in {j \in 1..Len(probe.arg) : probe.arg[j].class = <<3, 0>>}}

\* C33: the interface a DualShock4 device is bound to is always the first
\* interface of configuration 0 whose (class, subclass) is (0x03, 0x00); when
\* the configuration has no such interface the device is not bound to any
\* other interface.
C33_DualShock4Interface ==
    probe.fn = "DualShock4Device" /\ probe.done /\ probe.out.status = "bound" =>
        /\ probe.out.interface \in HidInterfaces
        /\ \A i \in HidInterfaces : probe.out.interface <= i

\* ---------------------------------------------------------------- C34
\* C34: poll interval: with raw the larger of the input and output endpoint
\* interval values, the device's poll interval in milliseconds is raw for a
\* low/full-speed device and, for a high-speed device, 2^(raw-1) units of 125
\* microseconds converted to whole milliseconds, i.e. floor(2^(raw-1) / 8).
C34_PollInterval ==
    probe.fn = "Device._interval" /\ probe.done =>
        LET raw == IF probe.arg.inival >= probe.arg.outival
                   THEN probe.arg.inival ELSE probe.arg.outival
        IN probe.out = IF probe.arg.speed_high
                       THEN (2 ^ (raw - 1)) \div 8
                       ELSE raw

\* ---------------------------------------------------------------- C35
\* C35: no physical device is bound to two Gamepad instances at the same
\* time: once one Gamepad has bound a device, no other Gamepad (whatever port
\* it was constructed with, including a port-less Gamepad next to a port-1
\* Gamepad) binds that same device until the first disconnects.
C35_ExclusiveBinding ==
    \A g, h \in Bound : g # h => gp[g].device.handle # gp[h].device.handle

C37_StateRanges ==
    probe.fn = "State" =>
        LET st == probe.out
            c == probe.arg
            pressed == st.buttons.pressed
        IN /\ st.trigger_threshold \in 1..255
           /\ st.joystick_threshold \in 1..32767
           /\ st.joystick_deadzone \in 0..32766
           /\ 32767 - st.joystick_deadzone # 0
           /\ st.left_trigger \in 0..255
           /\ st.right_trigger \in 0..255
           /\ \A v \in {st.left_joystick_x, st.left_joystick_y,
                        st.right_joystick_x, st.right_joystick_y} :
                 v \in -32767..32767
           /\ c.op = "left_trigger" /\ c.x = 0 => BUTTON_L2 \notin pressed
           /\ c.op = "right_trigger" /\ c.x = 0 => BUTTON_R2 \notin pressed
           /\ c.op = "left_joystick" /\ c.x = 0 =>
                pressed \cap {BUTTON_JOYSTICK_LEFT, BUTTON_JOYSTICK_RIGHT} = {}
           /\ c.op = "left_joystick" /\ c.y = 0 =>
                pressed \cap {BUTTON_JOYSTICK_UP, BUTTON_JOYSTICK_DOWN} = {}

\* The trigger threshold was written as 0 and stored as 1, then the left
\* trigger written as 0: L2 stays released
C37_Witness ==
    /\ probe.fn = "State"
    /\ probe.arg.n = 2
    /\ probe.arg.op = "left_trigger" /\ probe.arg.x = 0
    /\ probe.out.trigger_threshold = 1
    /\ probe.out.left_trigger = 0
    /\ BUTTON_L2 \notin probe.out.buttons.pressed

\* ---------------------------------------------------------------- C38
\* The decoder of each family
FamilyDecoder ==
    {<<DEVICE_TYPE_SWITCH_PRO, "SwitchProDevice">>,
     <<DEVICE_TYPE_ADAFRUIT_SNES, "AdafruitSnesDevice">>,
     <<DEVICE_TYPE_8BITDO_ZERO2, "Zero2Device">>,
     <<DEVICE_TYPE_XINPUT, "XInputDevice">>,
     <<DEVICE_TYPE_POWERA_WIRED, "PowerAWiredDevice">>,
     <<DEVICE_TYPE_PLAYSTATION_DS4, "DualShock4Device">>,
     <<DEVICE_TYPE_HID_JOYSTICK, "HIDJoystickDevice">>}

\* C38: for every family F other than Unknown, a device that classification
\* assigns to F and that initializes successfully is handled by F's decoder
\* and that decoder object reports device_type F.
C38_DecoderReportsFamily ==
    probe.fn = "_create_device" /\ probe.done =>
        /\ <<probe.arg, probe.out.cls>> \in FamilyDecoder
        /\ probe.out.device_type = probe.arg

\* ---------------------------------------------------------------- C39
\* The report decoded, its face-button bits (0x10, 0x20, 0x40, 0x80 of byte
\* 5) cleared
FaceBitsCleared ==
    [probe.arg.report EXCEPT ![6] = probe.arg.report[6] % 16]

\* The directions pressed in a State
Directions(st) ==
    st.buttons.pressed \cap {BUTTON_UP, BUTTON_RIGHT, BUTTON_DOWN, BUTTON_LEFT}

\* C39: DualShock4 decode keeps D-pad and face buttons independent: for every
\* report, the decoded UP/RIGHT/DOWN/LEFT depend only on the hat code in the
\* low four bits of byte 5, so two reports that differ only in the
\* face-button bits (0x10, 0x20, 0x40, 0x80) of byte 5 decode to the same
\* four D-pad values: every report decodes to the D-pad values of the report
\* that differs from it by having no face-button bit set.
C39_DpadIndependentOfFace ==
    DecodedBy("DualShock4Device") =>
        /\ Directions(probe.out)
             = Directions(UpdateState("DualShock4Device", FaceBitsCleared,
                                      probe.arg.state))
        /\ Directions(probe.out) = HatDirections(probe.arg.report[6] % 16)

\* ---------------------------------------------------------------- C40
\* Device d is a candidate of the first Gamepad: of a supported family, with
\* an endpoint on interface 0, on the Gamepad's port, its id neither claimed
\* nor in the failed registry
Candidate(d) ==
    /\ GetDeviceType(d) # DEVICE_TYPE_UNKNOWN
    /\ World[d].interfaces[1].endpoints # <<>>
    /\ ~PortMismatch(gp[1].port, d)
    /\ ~Excluded(gp[1].port, DeviceId(d), connected, failed)

Unbound == gp[1].device.handle = 0
WaitsForCandidate == Unbound /\ \E d \in Handles : Candidate(d)

=============================================================================
